---- MODULE Spec2Model ----
(***************************************************************************)
(* Model of the HTML-to-Figma synthesizer (src/plugin/html-parser.ts), the *)
(* plugin message handler (src/plugin/code.ts) and the server-side         *)
(* create_component tool (src/unnamed/part_002).                           *)
(*                                                                         *)
(* Lengths are JavaScript numbers in the code.  The model holds every      *)
(* length in units of 1/Unit px, Unit being a common multiple of every     *)
(* total flex-grow weight that can occur, so that the quotient             *)
(* available * weight / totalWeight is exact; floating-point rounding is   *)
(* not modelled.                                                           *)
(***************************************************************************)
EXTENDS Integers, Sequences, FiniteSets, TLC

\* ------------------------------------------------------------------ bounds
MaxChildren == 3      \* child elements of the synthesised container
MaxGrow == 2          \* largest flex-grow weight drawn
MaxElements == 2      \* top-level elements of a create_component request
MaxReq == 2           \* create_component requests handled by the plugin

\* ------------------------------------------------------------ arithmetic
RECURSIVE Gcd(_, _)
Gcd(a, b) == IF b = 0 THEN a ELSE Gcd(b, a % b)

RECURSIVE LcmUpTo(_)
LcmUpTo(n) == IF n <= 1 THEN 1 ELSE LET l == LcmUpTo(n - 1) IN (l * n) \div Gcd(l, n)

Unit == LcmUpTo(MaxChildren * MaxGrow)
Px(n) == n * Unit

\* --------------------------------------------------- optional style values
\* A ParsedStyle field is absent (undefined), a number, or a symbol such as
\* 'auto' / 'fill'.
Undef == [k |-> "undefined", v |-> 0]
Num(n) == [k |-> "num", v |-> n]
Sym(s) == [k |-> s, v |-> 0]
IsNum(o) == o.k = "num"
IsUndef(o) == o.k = "undefined"
Val(o) == o.v
\* the ?? operator
OrElse(o, d) == IF IsNum(o) THEN o.v ELSE d

NoStr == "undefined"

\* ParsedStyle with no declaration
EmptyStyle ==
  [ display |-> NoStr, flexDirection |-> NoStr, justifyContent |-> NoStr,
    alignItems |-> NoStr, gap |-> Undef,
    width |-> Undef, height |-> Undef,
    padding |-> Undef, paddingTop |-> Undef, paddingRight |-> Undef,
    paddingBottom |-> Undef, paddingLeft |-> Undef,
    margin |-> Undef, marginTop |-> Undef, marginRight |-> Undef,
    marginBottom |-> Undef, marginLeft |-> Undef,
    position |-> NoStr, top |-> Undef, right |-> Undef, bottom |-> Undef,
    left |-> Undef, zIndex |-> Undef, flexGrow |-> Undef,
    alignSelf |-> NoStr, scaleX |-> Undef, scaleY |-> Undef,
    aspectRatio |-> Undef ]

\* ------------------------------------------------------------------ boxes
\* figma.createFrame() gives a 100 x 100 frame without auto layout.
DefaultFrameSize == 100

NewFrame(id) ==
  [ id |-> id, type |-> "FRAME", name |-> "Frame", src |-> 0, forId |-> 0,
    layoutMode |-> "NONE",
    width |-> Px(DefaultFrameSize), height |-> Px(DefaultFrameSize),
    paddingTop |-> 0, paddingRight |-> 0, paddingBottom |-> 0, paddingLeft |-> 0,
    itemSpacing |-> 0,
    primaryAxisSizingMode |-> "AUTO", counterAxisSizingMode |-> "AUTO",
    primaryAxisAlignItems |-> "MIN", counterAxisAlignItems |-> "MIN",
    layoutSizingHorizontal |-> "FIXED", layoutSizingVertical |-> "FIXED",
    layoutGrow |-> 0, layoutPositioning |-> "AUTO",
    x |-> 0, y |-> 0, children |-> <<>>,
    \* bookkeeping of the model: "new", then "attached" once the box has been
    \* appended to its parent; "sized-unattached" when a sizing mode was
    \* assigned before that, "sized-then-attached" when it was appended after
    life |-> "new" ]

AppendedNowhere(box) == box

\* parent.appendChild(box) / parent.insertChild(index, box), seen from the box
Appended(box) ==
  [box EXCEPT !.life = IF @ = "new" THEN "attached"
                       ELSE IF @ = "sized-unattached" THEN "sized-then-attached"
                       ELSE @]

IsAttached(box) == box.life \in {"attached", "sized-then-attached"}

SizedUnattached(box) == box.life \in {"sized-unattached", "sized-then-attached"}

Resize(frame, w, h) == [frame EXCEPT !.width = w, !.height = h]

\* pendingLayoutSizing entry of one frame
NoPending == [horizontal |-> NoStr, height |-> NoStr]

\* ------------------------------------------------------- applyFrameStyles
\* The result of applyFrameStyles: the frame and the entries it writes for
\* this frame into the side tables pendingLayoutSizing, explicitAlignItems
\* and intendedFixedWidth.
IsSpaceJustify(styles) ==
  styles.justifyContent \in {"space-between", "space-around", "space-evenly"}

ApplyAutoLayout(st, styles) ==
  IF styles.display # "flex" THEN st
  ELSE
    LET mode == IF styles.flexDirection \in {"column", "column-reverse"}
                THEN "VERTICAL" ELSE "HORIZONTAL"
        primary == CASE styles.justifyContent = "flex-start" -> "MIN"
                     [] styles.justifyContent = "flex-end" -> "MAX"
                     [] styles.justifyContent = "center" -> "CENTER"
                     [] IsSpaceJustify(styles) -> "SPACE_BETWEEN"
                     [] OTHER -> st.frame.primaryAxisAlignItems
        counter == CASE styles.alignItems = "flex-start" -> "MIN"
                     [] styles.alignItems = "flex-end" -> "MAX"
                     [] styles.alignItems = "center" -> "CENTER"
                     [] OTHER -> st.frame.counterAxisAlignItems
    IN [st EXCEPT
          !.frame.layoutMode = mode,
          !.frame.primaryAxisAlignItems = primary,
          !.frame.counterAxisAlignItems = counter,
          !.frame.itemSpacing = OrElse(styles.gap, st.frame.itemSpacing),
          !.explicitAlignItems =
             styles.alignItems \in {"flex-start", "flex-end", "center"}]

\* padding added to an explicit width (content-box)
WidthPadding(styles) ==
  IF ~IsUndef(styles.padding) THEN Val(styles.padding) * 2
  ELSE OrElse(styles.paddingLeft, 0) + OrElse(styles.paddingRight, 0)

\* padding added to an explicit height (content-box)
HeightPadding(styles) ==
  IF ~IsUndef(styles.padding) THEN Val(styles.padding) * 2
  ELSE OrElse(styles.paddingTop, 0) + OrElse(styles.paddingBottom, 0)

ApplyWidth(st, styles, parentWidth) ==
  LET f == st.frame IN
  IF IsNum(styles.width) THEN
    [st EXCEPT
       !.frame = [Resize(f, Val(styles.width) + WidthPadding(styles), f.height) EXCEPT
                    !.counterAxisSizingMode =
                       IF f.layoutMode = "VERTICAL" THEN "FIXED" ELSE @,
                    !.primaryAxisSizingMode =
                       IF f.layoutMode = "HORIZONTAL" THEN "FIXED" ELSE @],
       !.pending.horizontal = "FIXED"]
  ELSE IF styles.width.k = "fill" THEN [st EXCEPT !.pending.horizontal = "FILL"]
  ELSE IF styles.width.k = "auto" THEN [st EXCEPT !.pending.horizontal = "HUG"]
  ELSE IF IsNum(parentWidth) /\ IsUndef(styles.width) THEN
    LET isAbsolutePositioned == styles.position \in {"absolute", "fixed"}
        hasLeftAndRight == ~IsUndef(styles.left) /\ ~IsUndef(styles.right)
        isInlineDisplay == styles.display \in {"inline", "inline-flex", "inline-block"}
    IN
    IF ~isAbsolutePositioned /\ ~isInlineDisplay THEN
      LET availableWidth == Val(parentWidth) - OrElse(styles.marginLeft, 0)
                                             - OrElse(styles.marginRight, 0)
      IN IF availableWidth > 0 THEN
           [st EXCEPT
              !.frame = [Resize(f, availableWidth, f.height) EXCEPT
                           !.primaryAxisSizingMode =
                              IF f.layoutMode = "HORIZONTAL" THEN "FIXED" ELSE @],
              !.pending.horizontal = "FIXED",
              !.intendedFixedWidth =
                 IF f.layoutMode = "HORIZONTAL" /\ IsSpaceJustify(styles)
                 THEN Num(availableWidth) ELSE @]
         ELSE st
    ELSE IF hasLeftAndRight THEN
      LET availableWidth == Val(parentWidth) - OrElse(styles.left, 0)
                                             - OrElse(styles.right, 0)
      IN IF availableWidth > 0
         THEN [st EXCEPT !.frame = Resize(f, availableWidth, f.height)]
         ELSE st
    ELSE st
  ELSE st

ApplyHeight(st, styles) ==
  LET f == st.frame IN
  IF IsNum(styles.height) THEN
    [st EXCEPT
       !.frame = [Resize(f, f.width, Val(styles.height) + HeightPadding(styles)) EXCEPT
                    !.counterAxisSizingMode =
                       IF f.layoutMode = "HORIZONTAL" THEN "FIXED" ELSE @,
                    !.primaryAxisSizingMode =
                       IF f.layoutMode = "VERTICAL" THEN "FIXED" ELSE @],
       !.pending.height = "FIXED"]
  ELSE IF styles.height.k = "fill" THEN [st EXCEPT !.pending.height = "FILL"]
  ELSE IF styles.height.k = "auto" THEN [st EXCEPT !.pending.height = "HUG"]
  ELSE st

ApplyPadding(st, styles) ==
  LET all == styles.padding
      f == st.frame
      side(own, cur) == IF ~IsUndef(own) THEN Val(own)
                        ELSE IF ~IsUndef(all) THEN Val(all) ELSE cur
  IN [st EXCEPT
        !.frame.paddingTop = side(styles.paddingTop, f.paddingTop),
        !.frame.paddingRight = side(styles.paddingRight, f.paddingRight),
        !.frame.paddingBottom = side(styles.paddingBottom, f.paddingBottom),
        !.frame.paddingLeft = side(styles.paddingLeft, f.paddingLeft)]

ApplyScale(st, styles) ==
  IF ~IsUndef(styles.scaleX) \/ ~IsUndef(styles.scaleY)
  THEN [st EXCEPT !.frame = Resize(st.frame,
                                   st.frame.width * OrElse(styles.scaleX, 1),
                                   st.frame.height * OrElse(styles.scaleY, 1))]
  ELSE st

ApplyFrameStyles(frame, styles, parentWidth) ==
  LET s0 == [frame |-> frame, pending |-> NoPending,
             explicitAlignItems |-> FALSE, intendedFixedWidth |-> Undef]
      s1 == ApplyAutoLayout(s0, styles)
      s2 == ApplyWidth(s1, styles, parentWidth)
      s3 == ApplyHeight(s2, styles)
      s4 == ApplyPadding(s3, styles)
  IN ApplyScale(s4, styles)

\* ------------------------------------------- layout sizing of an attached box
\* layoutSizingHorizontal / layoutSizingVertical and layoutGrow are one
\* property of the target seen twice: on the parent's main axis FILL is
\* layoutGrow = 1 and FIXED / HUG is layoutGrow = 0.
SetLayoutSizingHorizontal(box, value, parentMode) ==
  [box EXCEPT !.layoutSizingHorizontal = value,
              !.layoutGrow = IF parentMode = "HORIZONTAL"
                             THEN (IF value = "FILL" THEN 1 ELSE 0) ELSE @,
              !.life = IF @ = "new" THEN "sized-unattached" ELSE @]

SetLayoutSizingVertical(box, value, parentMode) ==
  [box EXCEPT !.layoutSizingVertical = value,
              !.layoutGrow = IF parentMode = "VERTICAL"
                             THEN (IF value = "FILL" THEN 1 ELSE 0) ELSE @,
              !.life = IF @ = "new" THEN "sized-unattached" ELSE @]

SetLayoutGrow(box, parentMode) ==
  [box EXCEPT !.layoutGrow = 1,
              !.layoutSizingHorizontal = IF parentMode = "HORIZONTAL" THEN "FILL" ELSE @,
              !.layoutSizingVertical = IF parentMode = "VERTICAL" THEN "FILL" ELSE @,
              !.life = IF @ = "new" THEN "sized-unattached" ELSE @]

InlineTags == {"span", "a", "label", "strong", "em", "b", "i", "small", "code"}

\* What createFigmaNode reads of the parent it attaches to.
ParentView(frame, explicitAlign) ==
  [layoutMode |-> frame.layoutMode, explicitAlignItems |-> explicitAlign]

\* createFigmaNode, from parent.appendChild(frame) to the align-self rule:
\* the sizing of a frame that has just been attached to `parent`.
ApplyPending(st, parent) ==
  IF parent.layoutMode = "NONE" THEN st
  ELSE
    LET f1 == IF st.pending.horizontal # NoStr
              THEN SetLayoutSizingHorizontal(st.frame, st.pending.horizontal, parent.layoutMode)
              ELSE st.frame
        f2 == IF st.pending.height # NoStr
              THEN SetLayoutSizingVertical(f1, st.pending.height, parent.layoutMode)
              ELSE f1
    IN [st EXCEPT !.frame = f2]

ApplyDefaultStretch(st, styles, tagName, parent) ==
  LET f == st.frame
      m == parent.layoutMode
      isInlineDisplay == styles.display \in {"inline-flex", "inline-block", "inline"}
      isAbsolutePositioned == styles.position \in {"absolute", "fixed"}
      isInlineTag == tagName \in InlineTags
      needsFixedWidth == IsSpaceJustify(styles)
      widthFree == IsUndef(styles.width) \/ styles.width.k = "fill"
      heightFree == IsUndef(styles.height) \/ styles.height.k = "fill"
  IN
  IF m # "NONE" /\ ~isInlineDisplay /\ ~isAbsolutePositioned /\ ~isInlineTag THEN
    IF m = "VERTICAL" THEN
      IF ~parent.explicitAlignItems /\ ~needsFixedWidth /\ widthFree
      THEN [st EXCEPT !.frame = SetLayoutSizingHorizontal(f, "FILL", m)]
      ELSE IF needsFixedWidth /\ IsUndef(styles.width)
      THEN [st EXCEPT !.frame = [SetLayoutSizingHorizontal(f, "FIXED", m)
                                   EXCEPT !.primaryAxisSizingMode = "FIXED"]]
      ELSE st
    ELSE
      LET f1 == IF ~parent.explicitAlignItems /\ heightFree
                THEN SetLayoutSizingVertical(f, "FILL", m) ELSE f
          f2 == IF IsUndef(styles.width) /\ IsUndef(styles.flexGrow)
                THEN SetLayoutSizingHorizontal(f1, "HUG", m) ELSE f1
      IN [st EXCEPT !.frame = f2]
  ELSE IF (isInlineTag \/ isInlineDisplay) /\ m # "NONE" THEN
    [st EXCEPT !.frame = SetLayoutSizingVertical(
                           SetLayoutSizingHorizontal(f, "HUG", m), "HUG", m)]
  ELSE st

HasFlexGrow(styles) == IsNum(styles.flexGrow) /\ Val(styles.flexGrow) > 0

ApplyFlexGrow(st, styles, parent) ==
  IF ~HasFlexGrow(styles) THEN st
  ELSE
    LET m == parent.layoutMode
        f0 == SetLayoutGrow(st.frame, m)
    IN
    IF m = "VERTICAL" THEN
      LET f1 == SetLayoutSizingVertical(f0, "FILL", m)
          fillCross == IsUndef(styles.width) /\ ~parent.explicitAlignItems
      IN [st EXCEPT
            !.frame = IF fillCross THEN SetLayoutSizingHorizontal(f1, "FILL", m) ELSE f1,
            !.intendedFixedWidth =
               IF fillCross /\ f1.layoutMode = "HORIZONTAL"
                  /\ f1.width > Px(DefaultFrameSize)
               THEN Num(f1.width) ELSE @]
    ELSE IF m = "HORIZONTAL" THEN
      LET f1 == SetLayoutSizingHorizontal(f0, "FILL", m)
      IN [st EXCEPT
            !.frame = IF IsUndef(styles.height) /\ ~parent.explicitAlignItems
                      THEN SetLayoutSizingVertical(f1, "FILL", m) ELSE f1]
    ELSE [st EXCEPT !.frame = f0]

ApplyAlignSelf(st, styles, parent) ==
  LET m == parent.layoutMode IN
  IF styles.alignSelf \in {"flex-start", "flex-end", "center"} /\ m # "NONE" THEN
    IF m = "HORIZONTAL"
    THEN [st EXCEPT !.frame = SetLayoutSizingVertical(st.frame, "HUG", m)]
    ELSE [st EXCEPT !.frame = SetLayoutSizingHorizontal(st.frame, "HUG", m)]
  ELSE st

\* the width the aspect-ratio rule starts from
EffectiveWidth(frame, styles, parentWidth) ==
  IF styles.width.k = "fill" /\ ~IsUndef(parentWidth) THEN Val(parentWidth)
  ELSE frame.width

\* aspect-ratio: the frame is resized to effectiveWidth x effectiveWidth / ratio
\* and FIXED is recorded for its height
ApplyAspectRatio(st, styles, parentWidth) ==
  IF IsNum(styles.aspectRatio) /\ Val(styles.aspectRatio) > 0
  THEN [st EXCEPT
          !.frame = Resize(@, EffectiveWidth(@, styles, parentWidth),
                           EffectiveWidth(@, styles, parentWidth)
                             \div Val(styles.aspectRatio)),
          !.pending.height = "FIXED"]
  ELSE st

\* createFigmaNode for an element that becomes a frame, up to the point where
\* its own text and children are added.  The caller appends the frame to the
\* parent's child list.
CreateFrameNode(id, src, tagName, styles, hasChildren, parent, parentWidth) ==
  LET isFlexDisplay == styles.display \in {"flex", "inline-flex"}
      isColumn == styles.flexDirection \in {"column", "column-reverse"}
      f0 == [NewFrame(id) EXCEPT !.name = tagName, !.src = src]
      f1 == IF isFlexDisplay \/ hasChildren
            THEN [f0 EXCEPT !.layoutMode = IF isFlexDisplay /\ ~isColumn
                                           THEN "HORIZONTAL" ELSE "VERTICAL"]
            ELSE f0
      s0 == ApplyFrameStyles(f1, styles, parentWidth)
      s1 == ApplyAspectRatio(s0, styles, parentWidth)
      s2 == ApplyPending([s1 EXCEPT !.frame = Appended(@)], parent)
      s3 == ApplyDefaultStretch(s2, styles, tagName, parent)
      s4 == ApplyFlexGrow(s3, styles, parent)
  IN ApplyAlignSelf(s4, styles, parent)

\* the width createFigmaNode hands to the children of `frame`
ChildParentWidth(frame, styles, parentWidth, storedWidth) ==
  LET ourPadding == WidthPadding(styles)
      frameIsHugging == frame.layoutSizingHorizontal = "HUG"
      w0 == IF IsNum(styles.width) THEN Num(Val(styles.width))
            ELSE IF IsNum(parentWidth) /\ Val(parentWidth) # 0 /\ ~frameIsHugging
                 THEN Num(Val(parentWidth) - ourPadding)
                 ELSE Undef
  IN IF frame.layoutMode = "HORIZONTAL" /\ ~frameIsHugging THEN
       IF IsNum(storedWidth) /\ Val(storedWidth) # 0
       THEN Num(Val(storedWidth) - ourPadding)
       ELSE IF frame.width > Px(DefaultFrameSize)
            THEN Num(frame.width - ourPadding)
            ELSE w0
     ELSE w0

\* the height createFigmaNode hands to the children of `frame`
ChildParentHeight(styles, parentHeight) ==
  IF IsNum(styles.height) THEN Num(Val(styles.height))
  ELSE IF IsNum(parentHeight) /\ Val(parentHeight) # 0 THEN parentHeight
  ELSE Undef

\* ------------------------------------------------------------- the inputs
ChildWidth == 35      \* explicit width of a fixed-size child, px
ChildHeight == 35     \* explicit height of a fixed-size child, px
MarginSize == 8       \* numeric margin of a child, px
OffsetSize == 5       \* top / left / bottom / right of a child, px
ContainerSize == 70   \* explicit width and height of the container, px
GapSize == 4          \* gap of the container, px
PadSize == 10         \* padding of the container, px
BaseOffset == 50      \* a flow position the layout engine may report, px

Sized == [EmptyStyle EXCEPT !.width = Num(Px(ChildWidth)), !.height = Num(Px(ChildHeight))]

\* absolute / fixed children: no z-index, and z-index -1, 0, 1, 2
AbsoluteStyles ==
  {[EmptyStyle EXCEPT !.position = "absolute", !.top = Num(0), !.left = Num(0),
                      !.zIndex = z] : z \in {Undef, Num(0 - 1), Num(0), Num(2)}}
  \cup {[EmptyStyle EXCEPT !.position = "fixed", !.bottom = Num(0), !.right = Num(0),
                           !.zIndex = Num(1)]}

FlowStyles ==
  { Sized,
    [EmptyStyle EXCEPT !.flexGrow = Num(1)],
    [EmptyStyle EXCEPT !.flexGrow = Num(MaxGrow)],
    [Sized EXCEPT !.marginTop = Sym("auto")],
    [Sized EXCEPT !.marginTop = Num(Px(MarginSize)), !.marginBottom = Num(Px(MarginSize)),
                  !.marginLeft = Num(Px(MarginSize)), !.marginRight = Num(Px(MarginSize))],
    [Sized EXCEPT !.position = "relative", !.top = Num(Px(OffsetSize)),
                  !.left = Num(Px(OffsetSize))],
    [EmptyStyle EXCEPT !.position = "relative", !.bottom = Num(Px(OffsetSize)),
                       !.right = Num(Px(OffsetSize)), !.flexGrow = Num(1)],
    [EmptyStyle EXCEPT !.position = "relative", !.top = Num(Px(OffsetSize)),
                       !.marginLeft = Num(Px(MarginSize)), !.flexGrow = Num(1)],
    [Sized EXCEPT !.position = "relative", !.top = Num(Px(OffsetSize)),
                  !.marginTop = Sym("auto")],
    [Sized EXCEPT !.position = "relative", !.left = Num(Px(OffsetSize)),
                  !.marginTop = Num(Px(MarginSize)), !.marginBottom = Num(Px(MarginSize))] }

ChildStyles == AbsoluteStyles \cup FlowStyles

\* child elements are leaves: <div> without text and without children
ChildLists == UNION {[1..n -> ChildStyles] : n \in 0..MaxChildren}

\* the container: display: flex, row or column, of explicit size
ContainerStyles ==
  {[EmptyStyle EXCEPT !.display = "flex", !.flexDirection = d,
                      !.width = Num(Px(ContainerSize)), !.height = Num(Px(ContainerSize)),
                      !.gap = Num(Px(GapSize)), !.padding = Num(Px(PadSize))]
     : d \in {"row", "column"}}

BasePositions == {<<0, 0>>, <<Px(BaseOffset), Px(BaseOffset)>>}

\* ---------------------------------------------------------------- state
VARIABLES
  \* createFigmaNode(element, rootFrame) for one container element
  element,                 \* the ParsedElement: [styles, children]
  frame,                   \* the container's frame, frame.children in order
  pc,                      \* "create", "children", "done" or "failed"
  todoBefore,              \* absoluteBeforeContent still to create (child indices)
  todoRegular,             \* regularChildren still to create (child indices)
  todoAfter,               \* absoluteAfterContent still to create (child indices)
  relativePositionedNodes, \* [node, styles] entries still to be offset
  flexGrowMap,             \* node id -> flex-grow weight, of this container
  nestedFlexGrowMap,       \* node id -> flex-grow weight, module-wide
  pendingLayoutSizing,     \* node id -> [horizontal, height]
  explicitAlignItems,      \* ids of frames with an explicit align-items
  intendedFixedWidth,      \* node id -> width
  childParentWidth,        \* parentWidth handed to the children
  childParentHeight,       \* parentHeight handed to the children
  nextId                   \* id of the next node figma creates

VARIABLES
  \* applyFrameStyles(frame, styles, parentWidth) on a fresh frame
  styleInput,              \* the ParsedStyle
  styleResult,             \* the frame and the side-table entries it produces
  stylesPc                 \* "fresh" or "styled"

VARIABLES
  \* the server's create_component tool and the plugin's message handler
  connected,               \* the plugin's UI holds the WebSocket connection
  call,                    \* request id -> [n, outcome] of a createComponent call
  wire,                    \* messages the server has sent, not yet delivered
  nextReq,                 \* id of the next request
  handler,                 \* request id -> state of its figma.ui.onmessage run
  running,                 \* request whose handler holds the thread, or 0
  nodes,                   \* node id -> [req, type, parent, top]
  responses                \* what figma.ui.postMessage has posted, in order

VARIABLES
  \* FigmaWebSocketServer, the messages in flight and the plugin's handler
  wss,                     \* this.wss: "listening", or "null" after stop()
  client,                  \* this.client: a socket, or 0 for null
  readyState,              \* socket -> "OPEN" or "CLOSED", every socket accepted so far
  pendingRequests,         \* the ids that have an entry in this.pendingRequests
  timers,                  \* the ids whose setTimeout is scheduled
  settled,                 \* the calls of resolve and reject, in order: [id, by]
  nextMsg,                 \* the id the next message gets
  toPlugin,                \* messages on their way to figma.ui.onmessage
  received,                \* the messages figma.ui.onmessage was called with
  suspended,               \* ids of the handler runs that wait at an await
  posted,                  \* what figma.ui.postMessage has posted, in order
  toServer                 \* messages on their way to the server's socket

VARIABLES
  \* parseLinearGradient(value) / parseRadialGradient(value)
  gradientInput,           \* [fn, entries]: the function and the stop entries
  gradientResult,          \* the stops returned, or Rejected
  gradientPc               \* "fresh" or "parsed"

VARIABLES
  \* the text node of one element in createFigmaNode
  textInput,               \* [path, tagName, fontFamily, fontWeight, fontStyle]
  textNode,                \* [fontName, characters, loads]
  fontTier,                \* which figma.loadFontAsync call is next or awaited
  fontPc                   \* "call", "await", "loaded", "done", "rejected"

VARIABLES
  \* the distribution pass on a container whose children have children
  distInput,               \* [frame, flexGrowMap, nestedFlexGrowMap]
  distResult,              \* the container after the pass
  distPc                   \* "start" or "done"

VARIABLES
  \* the attach step of createFigmaNode for one element that becomes a frame
  attachInput,             \* [tagName, styles, hasChildren, parent]
  attachResult,            \* the frame and the side-table entries it produces
  attachPc                 \* "fresh" or "attached"

layoutVars ==
  <<element, frame, pc, todoBefore, todoRegular, todoAfter, relativePositionedNodes,
    flexGrowMap, nestedFlexGrowMap, pendingLayoutSizing, explicitAlignItems,
    intendedFixedWidth, childParentWidth, childParentHeight, nextId>>

stylesVars == <<styleInput, styleResult, stylesPc>>

requestVars == <<connected, call, wire, nextReq, handler, running, nodes, responses>>

transportVars ==
  <<wss, client, readyState, pendingRequests, timers, settled, nextMsg, toPlugin, received,
    suspended, posted, toServer>>

gradientVars == <<gradientInput, gradientResult, gradientPc>>

fontVars == <<textInput, textNode, fontTier, fontPc>>

distVars == <<distInput, distResult, distPc>>

attachVars == <<attachInput, attachResult, attachPc>>

vars ==
  <<layoutVars, stylesVars, requestVars, transportVars, gradientVars, fontVars, distVars,
    attachVars>>

\* what the actions of one part of the program leave alone
notLayout ==
  <<stylesVars, requestVars, transportVars, gradientVars, fontVars, distVars,
    attachVars>>

notStyles ==
  <<layoutVars, requestVars, transportVars, gradientVars, fontVars, distVars,
    attachVars>>

notRequest ==
  <<layoutVars, stylesVars, transportVars, gradientVars, fontVars, distVars,
    attachVars>>

notTransport ==
  <<layoutVars, stylesVars, requestVars, gradientVars, fontVars, distVars,
    attachVars>>

notGradient ==
  <<layoutVars, stylesVars, requestVars, transportVars, fontVars, distVars,
    attachVars>>

notFont ==
  <<layoutVars, stylesVars, requestVars, transportVars, gradientVars, distVars,
    attachVars>>

notAttach ==
  <<layoutVars, stylesVars, requestVars, transportVars, gradientVars, fontVars, distVars>>

notDist ==
  <<layoutVars, stylesVars, requestVars, transportVars, gradientVars, fontVars,
    attachVars>>

\* ------------------------------------------------------ helpers on lists
RECURSIVE SumSeq(_)
SumSeq(seq) == IF seq = <<>> THEN 0 ELSE Head(seq) + SumSeq(Tail(seq))

SumOver(seq, F(_)) == SumSeq([i \in 1..Len(seq) |-> F(seq[i])])

SelectIdx(n, P(_)) == SelectSeq([i \in 1..n |-> i], P)

IndexOfId(children, id) == CHOOSE k \in 1..Len(children) : children[k].id = id

InsertAt(seq, k, x) == SubSeq(seq, 1, k - 1) \o <<x>> \o SubSeq(seq, k, Len(seq))

RemoveAt(seq, k) == SubSeq(seq, 1, k - 1) \o SubSeq(seq, k + 1, Len(seq))

\* ------------------------------------------- stacking order of the children
IsAbsolute(styles) == styles.position \in {"absolute", "fixed"}

ZIndexOf(styles) == OrElse(styles.zIndex, 0)

AbsoluteOrderLatestFirst(children, a, b) ==
  LET zIndexA == ZIndexOf(children[a])
      zIndexB == ZIndexOf(children[b])
  IN IF zIndexA # zIndexB THEN zIndexA < zIndexB ELSE a > b

\* the comparator of absoluteChildren.sort: a sorts before b
AbsoluteOrder(children, a, b) ==
  LET zIndexA == ZIndexOf(children[a])
      zIndexB == ZIndexOf(children[b])
  IN IF zIndexA # zIndexB THEN zIndexA < zIndexB ELSE a < b

RECURSIVE SortAbsolute(_, _)
SortAbsolute(children, S) ==
  IF S = {} THEN <<>>
  ELSE LET m == CHOOSE x \in S : \A y \in S \ {x} : AbsoluteOrder(children, x, y)
       IN <<m>> \o SortAbsolute(children, S \ {m})

IsBackgroundBelowZero(zIndex) == zIndex < 0

\* absolute children that go behind the regular content
IsBackground(zIndex) == zIndex < 1

AbsoluteSorted(children) ==
  SortAbsolute(children, {i \in 1..Len(children) : IsAbsolute(children[i])})

AbsoluteBeforeContent(children) ==
  SelectSeq(AbsoluteSorted(children), LAMBDA i : IsBackground(ZIndexOf(children[i])))

AbsoluteAfterContent(children) ==
  SelectSeq(AbsoluteSorted(children), LAMBDA i : ~IsBackground(ZIndexOf(children[i])))

RegularChildren(children) ==
  SelectIdx(Len(children), LAMBDA i : ~IsAbsolute(children[i]))

\* --------------------------------------------- createFigmaNode: the children
RecordPending(table, id, pending) ==
  IF pending = NoPending THEN table ELSE (id :> pending) @@ table

\* The local state of the children loop: the frame's child list, the id the
\* next created node gets, and the side tables the loop writes.
LoopState ==
  [children |-> frame.children, nextId |-> nextId, flexGrowMap |-> flexGrowMap,
   nestedFlexGrowMap |-> nestedFlexGrowMap, rel |-> relativePositionedNodes,
   pending |-> pendingLayoutSizing]

\* frame.appendChild(box) for a box just created with L.nextId
AppendCreated(L, box) ==
  [L EXCEPT !.children = Append(@, box), !.nextId = @ + 1]

SpacerFrame(id, name, src, w, h) ==
  [NewFrame(id) EXCEPT !.name = name, !.src = src, !.width = w, !.height = h]

\* margin shorthand expanded into the sides that are not set
ExpandMargin(styles) ==
  IF IsUndef(styles.margin) THEN styles
  ELSE [styles EXCEPT
          !.marginTop = IF IsUndef(@) THEN styles.margin ELSE @,
          !.marginRight = IF IsUndef(@) THEN styles.margin ELSE @,
          !.marginBottom = IF IsUndef(@) THEN styles.margin ELSE @,
          !.marginLeft = IF IsUndef(@) THEN styles.margin ELSE @]

AutoSpacerWithoutGrow(id, src, mode) ==
  SetLayoutSizingHorizontal(Appended(SpacerFrame(id, "spacer", src, Px(1), Px(1))),
                            "FILL", mode)

\* margin-top: auto in a VERTICAL frame: a growing spacer before the element
AutoSpacer(id, src, mode) ==
  SetLayoutSizingHorizontal(
    SetLayoutGrow(Appended(SpacerFrame(id, "spacer", src, Px(1), Px(1))), mode),
    "FILL", mode)

AddAutoSpacer(L, i, cs, mode) ==
  IF cs.marginTop.k = "auto" /\ mode = "VERTICAL"
  THEN AppendCreated(L, AutoSpacer(L.nextId, i, mode))
  ELSE L

AddNoMarginSpacer(L, i, margin, mode) == L

\* numeric margin-top / margin-bottom in a VERTICAL frame: a fixed-height spacer
AddMarginSpacer(L, i, margin, mode) ==
  IF IsNum(margin) /\ Val(margin) > 0 /\ mode = "VERTICAL"
  THEN AppendCreated(L, SetLayoutSizingHorizontal(
         Appended(SpacerFrame(L.nextId, "margin-spacer", i, Px(1), Val(margin))),
         "FILL", mode))
  ELSE L

\* margin-left / margin-right in a HORIZONTAL frame: a fixed-width spacer
AddSideSpacer(L, i, name, margin, mode) ==
  IF mode = "HORIZONTAL" /\ margin > 0
  THEN AppendCreated(L, SetLayoutSizingVertical(
         Appended(SpacerFrame(L.nextId, name, i, margin, Px(1))), "FILL", mode))
  ELSE L

IsRelativeOffset(cs) ==
  cs.position = "relative"
  /\ (~IsUndef(cs.top) \/ ~IsUndef(cs.left) \/ ~IsUndef(cs.bottom) \/ ~IsUndef(cs.right))

RegisterFlexGrow(L, id, cs) ==
  IF HasFlexGrow(cs)
  THEN [L EXCEPT !.flexGrowMap = (id :> Val(cs.flexGrow)) @@ @,
                 !.nestedFlexGrowMap = (id :> Val(cs.flexGrow)) @@ @]
  ELSE L

TrackRelative(L, id, cs) ==
  IF IsRelativeOffset(cs)
  THEN [L EXCEPT !.rel = Append(@, [node |-> id, styles |-> cs])]
  ELSE L

\* const wrapper = figma.createFrame(), named, laid out and appended
MarginWrapper(wid, i, mode) ==
  SetLayoutSizingHorizontal(
    Appended([NewFrame(wid) EXCEPT
                !.name = "margin-wrapper", !.src = i, !.layoutMode = "HORIZONTAL",
                !.primaryAxisSizingMode = "FIXED", !.counterAxisSizingMode = "AUTO",
                !.itemSpacing = 0]),
    "FILL", mode)

\* the spacer a wrapper gets for a positive margin-left / margin-right
WrapperSpacer(id, name, i, margin) ==
  IF margin > 0
  THEN <<SetLayoutSizingVertical(Appended(SpacerFrame(id, name, i, margin, Px(1))),
                                 "FILL", "HORIZONTAL")>>
  ELSE <<>>

\* the wrapper with [left spacer, child, right spacer] appended to the frame
AppendWrapper(L, wrapper, leftKids, cid, st, rightKids) ==
  [L EXCEPT
     !.children =
        Append(@, [wrapper EXCEPT
                     !.children =
                        leftKids
                        \o <<SetLayoutSizingHorizontal(st.frame, "FILL", "HORIZONTAL")>>
                        \o rightKids]),
     !.nextId = cid + 1 + Len(rightKids),
     !.pending = RecordPending(@, cid, st.pending)]

\* VERTICAL frame, child with a horizontal margin: a HORIZONTAL wrapper that
\* holds [left spacer, child, right spacer]
AddWrappedChild(L, i, cs, marginLeft, marginRight, parentView, cpw) ==
  LET wid == L.nextId
      cid == IF marginLeft > 0 THEN wid + 2 ELSE wid + 1
      childWithoutHMargins == [cs EXCEPT !.marginLeft = Undef, !.marginRight = Undef]
      width == IF IsNum(cpw) /\ Val(cpw) # 0
               THEN Num(Val(cpw) - marginLeft - marginRight) ELSE Undef
  IN AppendWrapper(
       L, MarginWrapper(wid, i, parentView.layoutMode),
       WrapperSpacer(wid + 1, "margin-left", i, marginLeft), cid,
       CreateFrameNode(cid, i, "div", childWithoutHMargins, FALSE,
                       ParentView(MarginWrapper(wid, i, parentView.layoutMode), FALSE),
                       width),
       WrapperSpacer(cid + 1, "margin-right", i, marginRight))

\* the created child appended to the frame, its pending sizing recorded
AppendWithPending(L, st) ==
  [AppendCreated(L, st.frame) EXCEPT !.pending = RecordPending(@, L.nextId, st.pending)]

\* node.x = marginLeft
OffsetBy(st, marginLeft) ==
  IF marginLeft > 0 THEN [st EXCEPT !.frame.x = marginLeft] ELSE st

\* frame without auto layout, child with a horizontal margin
AddOffsetChild(L, i, cs, marginLeft, parentView, cpw) ==
  RegisterFlexGrow(
    AppendWithPending(L, OffsetBy(CreateFrameNode(L.nextId, i, "div", cs, FALSE, parentView,
                                            cpw), marginLeft)),
    L.nextId, cs)

\* every other child: created directly in the frame
AddPlainChild(L, i, cs, parentView, cpw) ==
  TrackRelative(
    RegisterFlexGrow(
      AppendWithPending(L, CreateFrameNode(L.nextId, i, "div", cs, FALSE, parentView, cpw)),
      L.nextId, cs),
    L.nextId, cs)

AddChild(L, i, cs, parentView, cpw) ==
  LET mode == parentView.layoutMode
      marginLeft == OrElse(cs.marginLeft, 0)
      marginRight == OrElse(cs.marginRight, 0)
      hasHorizontalMargin == marginLeft > 0 \/ marginRight > 0
  IN IF mode = "VERTICAL" /\ hasHorizontalMargin
     THEN AddWrappedChild(L, i, cs, marginLeft, marginRight, parentView, cpw)
     ELSE IF mode = "NONE" /\ hasHorizontalMargin
     THEN AddOffsetChild(L, i, cs, marginLeft, parentView, cpw)
     ELSE AddPlainChild(L, i, cs, parentView, cpw)

\* one iteration of the loop over regularChildren
RegularChildStep(L, i, styles, parentView, cpw) ==
  LET cs == ExpandMargin(styles)
      mode == parentView.layoutMode
      L1 == AddAutoSpacer(L, i, cs, mode)
      L2 == AddMarginSpacer(L1, i, cs.marginTop, mode)
      L3 == AddSideSpacer(L2, i, "margin-left", OrElse(cs.marginLeft, 0), mode)
      L4 == AddChild(L3, i, cs, parentView, cpw)
      L5 == AddSideSpacer(L4, i, "margin-right", OrElse(cs.marginRight, 0), mode)
  IN AddMarginSpacer(L5, i, cs.marginBottom, mode)

\* left and right given: the width between them
AbsoluteWidth(n, cs, parentW, mode) ==
  IF ~IsUndef(cs.left) /\ ~IsUndef(cs.right)
     /\ parentW - OrElse(cs.left, 0) - OrElse(cs.right, 0) > 0
  THEN SetLayoutSizingHorizontal(
         Resize(n, parentW - OrElse(cs.left, 0) - OrElse(cs.right, 0), n.height),
         "FIXED", mode)
  ELSE n

\* top and bottom given: the height between them
AbsoluteHeight(n, cs, parentH, mode) ==
  IF ~IsUndef(cs.top) /\ ~IsUndef(cs.bottom)
     /\ parentH - OrElse(cs.top, 0) - OrElse(cs.bottom, 0) > 0
  THEN SetLayoutSizingVertical(
         Resize(n, n.width, parentH - OrElse(cs.top, 0) - OrElse(cs.bottom, 0)),
         "FIXED", mode)
  ELSE n

\* node.x / node.y from left or right, top or bottom
AbsolutePosition(n, cs, parentW, parentH) ==
  [n EXCEPT
     !.x = IF ~IsUndef(cs.left) THEN Val(cs.left)
           ELSE IF ~IsUndef(cs.right) THEN parentW - n.width - Val(cs.right)
           ELSE @,
     !.y = IF ~IsUndef(cs.top) THEN Val(cs.top)
           ELSE IF ~IsUndef(cs.bottom) THEN parentH - n.height - Val(cs.bottom)
           ELSE @]

\* the created node taken out of the flow, sized and placed
PlaceAbsolute(st, cs, container, mode) ==
  [st EXCEPT !.frame =
     AbsolutePosition(
       AbsoluteHeight(
         AbsoluteWidth([@ EXCEPT !.layoutPositioning = "ABSOLUTE"], cs,
                       container.width, mode),
         cs, container.height, mode),
       cs, container.width, container.height)]

\* createAbsoluteChild
AbsoluteChildStep(L, i, cs, container, parentView, cpw) ==
  AppendWithPending(L, PlaceAbsolute(CreateFrameNode(L.nextId, i, "div", cs, FALSE,
                                               parentView, cpw),
                               cs, container, parentView.layoutMode))

MoveNowhere(children, k) == children

MoveAndKeep(children, k) == Append(children, children[k])

\* parent.appendChild(node) of a node that already is a child: move to the end
MoveToFront(children, k) == Append(RemoveAt(children, k), children[k])

RelativeOffsetX(styles) ==
  IF ~IsUndef(styles.left) THEN Val(styles.left)
  ELSE IF ~IsUndef(styles.right) THEN 0 - Val(styles.right) ELSE 0

RelativeOffsetY(styles) ==
  IF ~IsUndef(styles.top) THEN Val(styles.top)
  ELSE IF ~IsUndef(styles.bottom) THEN 0 - Val(styles.bottom) ELSE 0

\* the placeholder of a relatively positioned node, as inserted: at the node's
\* flow position (baseX, baseY) and of the node's size
Placeholder(id, node, baseX, baseY) ==
  [NewFrame(id) EXCEPT !.name = "relative-placeholder", !.src = node.src,
                       !.forId = node.id, !.width = node.width, !.height = node.height,
                       !.x = baseX, !.y = baseY]

\* one iteration of the loop over relativePositionedNodes, the target accepting
\* the placeholder's layout sizing
RelativeStep(children, entry, id, baseX, baseY, mode) ==
  LET nodeIndex == IndexOfId(children, entry.node)
      node == children[nodeIndex]
      p0 == Appended(Placeholder(id, node, baseX, baseY))
      p1 == SetLayoutSizingVertical(
              SetLayoutSizingHorizontal(p0, node.layoutSizingHorizontal, mode),
              node.layoutSizingVertical, mode)
      moved == [node EXCEPT !.layoutPositioning = "ABSOLUTE",
                            !.x = baseX + RelativeOffsetX(entry.styles),
                            !.y = baseY + RelativeOffsetY(entry.styles)]
      inserted == InsertAt([children EXCEPT ![nodeIndex] = moved], nodeIndex, p1)
  IN MoveToFront(inserted, nodeIndex + 1)

\* the same iteration when the target rejects the sizing assignment: the
\* placeholder is in the list and the exception leaves the loop
RelativeStepRejected(children, entry, id, baseX, baseY) ==
  LET nodeIndex == IndexOfId(children, entry.node)
  IN InsertAt(children, nodeIndex,
              Appended(Placeholder(id, children[nodeIndex], baseX, baseY)))

\* ------------------------------------- createFigmaNode: flex-grow distribution
SyntheticNames == {"spacer", "margin-spacer", "margin-wrapper", "margin-left", "margin-right"}

\* a child the distribution pass counts
IsCounted(child) ==
  child.layoutPositioning # "ABSOLUTE" /\ child.name \notin SyntheticNames

IsRegistered(map, child) == child.id \in DOMAIN map /\ map[child.id] > 0

MainSize(child, isHorizontal) == IF isHorizontal THEN child.width ELSE child.height

TotalFlexGrow(children, map) ==
  SumOver(children, LAMBDA c : IF IsCounted(c) /\ IsRegistered(map, c) THEN map[c.id] ELSE 0)

FixedSize(children, map, isHorizontal) ==
  SumOver(children, LAMBDA c : IF IsCounted(c) /\ ~IsRegistered(map, c)
                               THEN MainSize(c, isHorizontal) ELSE 0)

GapCount(children) == SumOver(children, LAMBDA c : IF IsCounted(c) THEN 1 ELSE 0)

AvailableSpace(f, map, storedWidth) ==
  LET isHorizontal == f.layoutMode = "HORIZONTAL"
      containerSize == IF isHorizontal THEN OrElse(storedWidth, f.width) ELSE f.height
      paddingStart == IF isHorizontal THEN f.paddingLeft ELSE f.paddingTop
      paddingEnd == IF isHorizontal THEN f.paddingRight ELSE f.paddingBottom
      totalGaps == (GapCount(f.children) - 1) * f.itemSpacing
  IN containerSize - paddingStart - paddingEnd
       - FixedSize(f.children, map, isHorizontal) - totalGaps

\* the pass runs only for a frame with registered children, a positive total
\* weight and more than one counted child
DistributionRuns(f, map) ==
  /\ DOMAIN map # {}
  /\ f.layoutMode # "NONE"
  /\ TotalFlexGrow(f.children, map) > 0
  /\ GapCount(f.children) > 1

HasSpaceAlways(availableSpace) == TRUE

\* if (availableSpace > 0), in both passes
HasSpace(availableSpace) == availableSpace > 0

CalculatedSizeEqualShares(availableSpace, flexGrow, totalFlexGrow) ==
  availableSpace \div totalFlexGrow

\* availableSpace * (flexGrow / totalFlexGrow)
CalculatedSize(availableSpace, flexGrow, totalFlexGrow) ==
  (availableSpace * flexGrow) \div totalFlexGrow

\* ------------------------------------------------- recalculateNestedFlex
\* 'layoutMode' in child: frames have it, text nodes do not
HasLayoutMode(child) == child.type = "FRAME"

\* the names the first two loops of recalculateNestedFlex skip
IsNestedCounted(child) == child.name \notin SyntheticNames

\* the names its last two loops skip
NestedSkipNames == {"spacer", "margin-spacer", "margin-wrapper"}

NestedTotalFlexGrow(children, nested) ==
  SumOver(children, LAMBDA c : IF IsNestedCounted(c) /\ IsRegistered(nested, c)
                               THEN nested[c.id] ELSE 0)

NestedFixedSize(children, nested) ==
  SumOver(children, LAMBDA c : IF IsNestedCounted(c) /\ ~IsRegistered(nested, c)
                               THEN c.width ELSE 0)

NestedGapCount(children) ==
  SumOver(children, LAMBDA c : IF IsNestedCounted(c) THEN 1 ELSE 0)

NestedAvailableSpace(f, newWidth, nested) ==
  LET gapCount == NestedGapCount(f.children)
      totalGaps == IF gapCount > 1 THEN (gapCount - 1) * f.itemSpacing ELSE 0
  IN newWidth - f.paddingLeft - f.paddingRight
       - NestedFixedSize(f.children, nested) - totalGaps

\* a HORIZONTAL child with space-between in a VERTICAL frame
IsSpaceBetweenRow(child) ==
  /\ HasLayoutMode(child)
  /\ child.name \notin NestedSkipNames
  /\ child.layoutMode = "HORIZONTAL"
  /\ child.primaryAxisAlignItems = "SPACE_BETWEEN"

RECURSIVE RecalculateNestedFlex(_, _, _)

\* recalculateNestedFlex(frame, newWidth): the flex-grow children of a
\* HORIZONTAL frame share newWidth, the space-between rows of a VERTICAL frame
\* take its content width, and the frames below are visited in turn
RecalculateNestedFlex(f, newWidth, nested) ==
  IF Len(f.children) = 0 THEN f
  ELSE
    LET totalFlexGrow == NestedTotalFlexGrow(f.children, nested)
        availableSpace == NestedAvailableSpace(f, newWidth, nested)
        distributes == /\ f.layoutMode = "HORIZONTAL"
                       /\ totalFlexGrow > 0
                       /\ HasSpace(availableSpace)
        flexed(c) ==
          IF distributes /\ IsNestedCounted(c) /\ IsRegistered(nested, c)
          THEN LET calculatedSize ==
                     CalculatedSize(availableSpace, nested[c.id], totalFlexGrow)
                   resized == SetLayoutSizingHorizontal(
                                Resize(c, calculatedSize, c.height), "FIXED",
                                f.layoutMode)
               IN IF HasLayoutMode(c)
                  THEN RecalculateNestedFlex(resized, calculatedSize, nested)
                  ELSE resized
          ELSE c
        contentWidth == newWidth - f.paddingLeft - f.paddingRight
        stretched(c) ==
          IF f.layoutMode = "VERTICAL" /\ IsSpaceBetweenRow(c)
          THEN [SetLayoutSizingHorizontal(Resize(c, contentWidth, c.height), "FIXED",
                                          f.layoutMode)
                  EXCEPT !.primaryAxisSizingMode = "FIXED"]
          ELSE c
        visited(c) ==
          IF /\ HasLayoutMode(c)
             /\ c.name \notin NestedSkipNames
             /\ ~(IsRegistered(nested, c) /\ f.layoutMode = "HORIZONTAL")
          THEN RecalculateNestedFlex(c, c.width, nested)
          ELSE c
    IN [f EXCEPT !.children = [k \in 1..Len(@) |-> visited(stretched(flexed(@[k])))]]

\* the distribution pass of createFigmaNode; a child resized on the horizontal
\* axis has its own children recalculated
DistributeFlexGrow(f, map, nested, storedWidth) ==
  IF ~DistributionRuns(f, map) THEN f
  ELSE
    LET isHorizontal == f.layoutMode = "HORIZONTAL"
        totalFlexGrow == TotalFlexGrow(f.children, map)
        availableSpace == AvailableSpace(f, map, storedWidth)
        sized(c) ==
          LET calculatedSize == CalculatedSize(availableSpace, map[c.id], totalFlexGrow)
          IN IF isHorizontal
             THEN RecalculateNestedFlex(
                    SetLayoutSizingHorizontal(Resize(c, calculatedSize, c.height),
                                              "FIXED", f.layoutMode),
                    calculatedSize, nested)
             ELSE SetLayoutSizingVertical(Resize(c, c.width, calculatedSize),
                                          "FIXED", f.layoutMode)
    IN IF HasSpace(availableSpace)
       THEN [f EXCEPT !.children =
               [k \in 1..Len(@) |-> IF @[k].id \in DOMAIN map THEN sized(@[k]) ELSE @[k]]]
       ELSE f

\* ------------------------------------------------------------- the actions
RootView == [layoutMode |-> "VERTICAL", explicitAlignItems |-> FALSE]

FrameView == ParentView(frame, frame.id \in explicitAlignItems)

StoredWidth(id) ==
  IF id \in DOMAIN intendedFixedWidth THEN Num(intendedFixedWidth[id]) ELSE Undef

\* createFigmaNode(element, rootFrame): the frame is created, styled and
\* attached, and the children are split by position and z-index
CreateContainer ==
  /\ UNCHANGED notLayout
  /\ pc = "create"
  /\ \E st \in {CreateFrameNode(nextId, 0, "div", element.styles,
                                Len(element.children) > 0, RootView, Undef)} :
        /\ frame' = st.frame
        /\ pendingLayoutSizing' = RecordPending(pendingLayoutSizing, nextId, st.pending)
        /\ explicitAlignItems' =
             IF st.explicitAlignItems THEN explicitAlignItems \cup {nextId}
             ELSE explicitAlignItems
        /\ intendedFixedWidth' =
             IF IsNum(st.intendedFixedWidth)
             THEN (nextId :> Val(st.intendedFixedWidth)) @@ intendedFixedWidth
             ELSE intendedFixedWidth
        /\ childParentWidth' =
             ChildParentWidth(st.frame, element.styles, Undef, st.intendedFixedWidth)
        /\ childParentHeight' = ChildParentHeight(element.styles, Undef)
  /\ todoBefore' = AbsoluteBeforeContent(element.children)
  /\ todoRegular' = RegularChildren(element.children)
  /\ todoAfter' = AbsoluteAfterContent(element.children)
  /\ nextId' = nextId + 1
  /\ pc' = "children"
  /\ UNCHANGED <<element, relativePositionedNodes, flexGrowMap, nestedFlexGrowMap>>

StoreLoopState(L) ==
  /\ frame' = [frame EXCEPT !.children = L.children]
  /\ nextId' = L.nextId
  /\ flexGrowMap' = L.flexGrowMap
  /\ nestedFlexGrowMap' = L.nestedFlexGrowMap
  /\ relativePositionedNodes' = L.rel
  /\ pendingLayoutSizing' = L.pending

\* one absolute child with z-index < 1
CreateAbsoluteBefore ==
  /\ UNCHANGED notLayout
  /\ pc = "children"
  /\ todoBefore # <<>>
  /\ LET i == Head(todoBefore)
     IN StoreLoopState(AbsoluteChildStep(LoopState, i, element.children[i], frame,
                                         FrameView, childParentWidth))
  /\ todoBefore' = Tail(todoBefore)
  /\ UNCHANGED <<element, pc, todoRegular, todoAfter, explicitAlignItems,
                 intendedFixedWidth, childParentWidth, childParentHeight>>

\* one regular child, with its spacers and wrapper
CreateRegularChild ==
  /\ UNCHANGED notLayout
  /\ pc = "children"
  /\ todoBefore = <<>>
  /\ todoRegular # <<>>
  /\ LET i == Head(todoRegular)
     IN StoreLoopState(RegularChildStep(LoopState, i, element.children[i],
                                        FrameView, childParentWidth))
  /\ todoRegular' = Tail(todoRegular)
  /\ UNCHANGED <<element, pc, todoBefore, todoAfter, explicitAlignItems,
                 intendedFixedWidth, childParentWidth, childParentHeight>>

\* one position: relative child: placeholder, offset, move to the front.  The
\* layout engine reports the node's flow position; the assignment of the
\* placeholder's layout sizing is not guarded, so a rejection by the target
\* ends the synthesis with an exception.
ApplyRelativeOffset ==
  /\ UNCHANGED notLayout
  /\ pc = "children"
  /\ todoBefore = <<>>
  /\ todoRegular = <<>>
  /\ relativePositionedNodes # <<>>
  /\ \E base \in BasePositions, rejected \in BOOLEAN :
       LET entry == Head(relativePositionedNodes)
       IN IF rejected
          THEN /\ frame' = [frame EXCEPT !.children =
                              RelativeStepRejected(@, entry, nextId, base[1], base[2])]
               /\ pc' = "failed"
          ELSE /\ frame' = [frame EXCEPT !.children =
                              RelativeStep(@, entry, nextId, base[1], base[2],
                                           frame.layoutMode)]
               /\ pc' = pc
  /\ relativePositionedNodes' = Tail(relativePositionedNodes)
  /\ nextId' = nextId + 1
  /\ UNCHANGED <<element, todoBefore, todoRegular, todoAfter, flexGrowMap,
                 nestedFlexGrowMap, pendingLayoutSizing, explicitAlignItems,
                 intendedFixedWidth, childParentWidth, childParentHeight>>

\* one absolute child with z-index >= 1
CreateAbsoluteAfter ==
  /\ UNCHANGED notLayout
  /\ pc = "children"
  /\ todoBefore = <<>>
  /\ todoRegular = <<>>
  /\ relativePositionedNodes = <<>>
  /\ todoAfter # <<>>
  /\ LET i == Head(todoAfter)
     IN StoreLoopState(AbsoluteChildStep(LoopState, i, element.children[i], frame,
                                         FrameView, childParentWidth))
  /\ todoAfter' = Tail(todoAfter)
  /\ UNCHANGED <<element, pc, todoBefore, todoRegular, explicitAlignItems,
                 intendedFixedWidth, childParentWidth, childParentHeight>>

\* the frame gets back the width applyFrameStyles intended for it
RestoreIntendedWidth(f, storedWidth) ==
  IF IsNum(storedWidth) /\ f.width # Val(storedWidth)
  THEN [Resize(f, Val(storedWidth), f.height) EXCEPT !.primaryAxisSizingMode = "FIXED"]
  ELSE f

\* the flex-grow distribution pass and the restore of the intended width;
\* createFigmaNode returns the frame.  (The container of this model never has
\* justify-content: space-around, so that pass leaves the frame alone.)
FinishContainer ==
  /\ UNCHANGED notLayout
  /\ pc = "children"
  /\ todoBefore = <<>>
  /\ todoRegular = <<>>
  /\ relativePositionedNodes = <<>>
  /\ todoAfter = <<>>
  /\ \E distributed \in {DistributeFlexGrow(frame, flexGrowMap, nestedFlexGrowMap,
                                            StoredWidth(frame.id))} :
     LET storedWidth == StoredWidth(frame.id)
     IN /\ frame' = RestoreIntendedWidth(distributed, storedWidth)
        /\ intendedFixedWidth' =
             IF IsNum(storedWidth) /\ distributed.width # Val(storedWidth)
             THEN [id \in DOMAIN intendedFixedWidth \ {frame.id} |-> intendedFixedWidth[id]]
             ELSE intendedFixedWidth
  /\ pc' = "done"
  /\ UNCHANGED <<element, todoBefore, todoRegular, todoAfter, relativePositionedNodes,
                 flexGrowMap, nestedFlexGrowMap, pendingLayoutSizing, explicitAlignItems,
                 childParentWidth, childParentHeight, nextId>>

LayoutIdle ==
  /\ element = [styles |-> EmptyStyle, children |-> <<>>]
  /\ frame = NewFrame(0)
  /\ pc = "idle"
  /\ todoBefore = <<>>
  /\ todoRegular = <<>>
  /\ todoAfter = <<>>
  /\ relativePositionedNodes = <<>>
  /\ flexGrowMap = <<>>
  /\ nestedFlexGrowMap = <<>>
  /\ pendingLayoutSizing = <<>>
  /\ explicitAlignItems = {}
  /\ intendedFixedWidth = <<>>
  /\ childParentWidth = Undef
  /\ childParentHeight = Undef
  /\ nextId = 1

LayoutInit ==
  /\ element \in {[styles |-> cs, children |-> ch] : cs \in ContainerStyles, ch \in ChildLists}
  /\ frame = NewFrame(0)
  /\ pc = "create"
  /\ todoBefore = <<>>
  /\ todoRegular = <<>>
  /\ todoAfter = <<>>
  /\ relativePositionedNodes = <<>>
  /\ flexGrowMap = <<>>
  /\ nestedFlexGrowMap = <<>>
  /\ pendingLayoutSizing = <<>>
  /\ explicitAlignItems = {}
  /\ intendedFixedWidth = <<>>
  /\ childParentWidth = Undef
  /\ childParentHeight = Undef
  /\ nextId = 1

LayoutNext ==
  \/ CreateContainer
  \/ CreateAbsoluteBefore
  \/ CreateRegularChild
  \/ ApplyRelativeOffset
  \/ CreateAbsoluteAfter
  \/ FinishContainer

\* ==================================================== applyFrameStyles alone
StyleWidth == 200     \* explicit width drawn for the styled element, px
StyleHeight == 60     \* explicit height drawn for the styled element, px
SidePad == 5          \* per-side padding drawn for the styled element, px
StyleScale == 2       \* scale factor drawn for the styled element
StyleParentWidth == 300  \* parentWidth handed to applyFrameStyles, px

OneOf(v) == {Undef, Num(v)}

StyleInputs ==
  {[EmptyStyle EXCEPT !.display = d, !.width = w, !.height = h, !.padding = p,
                      !.paddingTop = pt, !.paddingRight = pr,
                      !.paddingBottom = pb, !.paddingLeft = pl, !.scaleX = sx]
     : d \in {NoStr, "flex"}, w \in OneOf(Px(StyleWidth)), h \in OneOf(Px(StyleHeight)),
       p \in OneOf(Px(PadSize)), pt \in OneOf(Px(SidePad)), pr \in OneOf(Px(SidePad)),
       pb \in OneOf(Px(SidePad)), pl \in OneOf(Px(SidePad)), sx \in OneOf(StyleScale)}

FreshStyleResult ==
  [frame |-> NewFrame(1), pending |-> NoPending,
   explicitAlignItems |-> FALSE, intendedFixedWidth |-> Undef]

StylesIdle ==
  /\ styleInput = EmptyStyle
  /\ styleResult = FreshStyleResult
  /\ stylesPc = "fresh"

StylesInit ==
  /\ styleInput \in StyleInputs
  /\ styleResult = FreshStyleResult
  /\ stylesPc = "fresh"

\* applyFrameStyles(frame, styles, parentWidth)
ApplyStyles ==
  /\ stylesPc = "fresh"
  /\ \E parentWidth \in OneOf(Px(StyleParentWidth)) :
       styleResult' = ApplyFrameStyles(styleResult.frame, styleInput, parentWidth)
  /\ stylesPc' = "styled"
  /\ UNCHANGED <<styleInput, notStyles>>

\* ============================================== create_component requests
\* where a node hangs: on the current page, in the frame a parentId names, or
\* under another node
OnPage == [k |-> "page", v |-> 0]
OnTarget == [k |-> "target", v |-> 0]
Under(id) == [k |-> "node", v |-> id]

\* ParsedElement: tag, whether it has text, children
Div == [tagName |-> "div", textContent |-> FALSE, children |-> <<>>]
Span == [tagName |-> "span", textContent |-> TRUE, children |-> <<>>]
Button == [tagName |-> "button", textContent |-> TRUE, children |-> <<>>]
Section == [tagName |-> "section", textContent |-> FALSE, children |-> <<Span>>]

ElementLists == UNION {[1..n -> {Div, Span, Button, Section}] : n \in 0..MaxElements}

\* payload.parentId: absent, or the id of a frame of the document
ParentIds == {NoStr, "target"}

Requests == 1..MaxReq

textTags == {"span", "p", "h1", "h2", "h3", "h4", "h5", "h6", "label", "a"}

\* an element createFigmaNode turns into a text node (the elements of this
\* model carry no flex-grow and no frame styles)
IsTextLeaf(el) ==
  el.tagName \in textTags /\ el.textContent /\ Len(el.children) = 0

\* figma.createFrame() / figma.createText(): the plugin API creates the node
\* as a child of figma.currentPage
NewNode(req, type, top) == [req |-> req, type |-> type, parent |-> OnPage, top |-> top]

\* parent.appendChild(child)
AppendChild(tree, id, parent) == [tree EXCEPT ![id].parent = parent]

IdleHandler ==
  [pc |-> "idle", todo |-> <<>>, total |-> 0, parentId |-> NoStr, root |-> 0,
   tier |-> 0, text |-> 0, textParent |-> OnPage, failedTop |-> 0]

\* the handler after its run has ended: only what the response depends on
Ended(h) ==
  [h EXCEPT !.pc = "done", !.todo = <<>>, !.tier = 0, !.text = 0, !.textParent = OnPage]

ResultMessage(id, nodeId) ==
  [id |-> id, type |-> "result", message |-> NoStr, nodeId |-> nodeId]

ErrorMessage(id, message) ==
  [id |-> id, type |-> "error", message |-> message, nodeId |-> 0]

\* the parent handleCreateComponent attaches the root frame to
AttachmentParent(parentId) == IF parentId = "target" THEN OnTarget ELSE OnPage

NoElementsNever(elements) == FALSE

\* !elements || elements.length === 0
NoElements(elements) == Len(elements) = 0

\* the tasks createFigmaNode(element, parent) calls for a list of elements
Tasks(elements, parent, tops) ==
  [i \in 1..Len(elements) |-> [el |-> elements[i], parent |-> parent, top |-> tops[i]]]

\* the three attempts of the font load
LastTier == 3

\* the message of the rejection loadFontAsync ends with
FontError == "font could not be loaded"

AfterFontFailureLeafOnly(h, top) ==
  IF h.tier < LastTier THEN [h EXCEPT !.tier = @ + 1]
  ELSE [h EXCEPT !.pc = "element", !.tier = 0, !.text = 0, !.failedTop = top]

\* loadFontAsync rejected: the first two attempts are caught and followed by
\* the next attempt, the third is not caught
AfterFontFailure(h, top) ==
  IF h.tier < LastTier THEN [h EXCEPT !.tier = @ + 1]
  ELSE [h EXCEPT !.pc = "thrown", !.failedTop = top]

RequestIdle ==
  /\ connected = FALSE
  /\ call = <<>>
  /\ wire = <<>>
  /\ nextReq = 1
  /\ handler = [r \in Requests |-> IdleHandler]
  /\ running = 0
  /\ nodes = <<>>
  /\ responses = <<>>

RequestInit == RequestIdle

\* the server: the plugin's UI opens the WebSocket connection
ClientConnects ==
  /\ ~connected
  /\ connected' = TRUE
  /\ UNCHANGED <<call, wire, nextReq, handler, running, nodes, responses,
                 notRequest>>

\* the server: the connection closes
ClientDisconnects ==
  /\ connected
  /\ connected' = FALSE
  /\ UNCHANGED <<call, wire, nextReq, handler, running, nodes, responses,
                 notRequest>>

\* elements.length === 0 on the server
ServerNoElements(elements) == Len(elements) = 0

\* the server: createComponent(input), up to ws.send
CreateComponent ==
  /\ nextReq <= MaxReq
  /\ \E elements \in ElementLists, parentId \in ParentIds :
       LET outcome == IF ~connected THEN "not-connected"
                      ELSE IF ServerNoElements(elements) THEN "no-elements"
                      ELSE "sent"
       IN /\ call' = Append(call, [id |-> nextReq, n |-> Len(elements),
                                   outcome |-> outcome])
          /\ wire' = IF outcome = "sent"
                     THEN Append(wire, [id |-> nextReq, elements |-> elements,
                                        parentId |-> parentId])
                     ELSE wire
  /\ nextReq' = nextReq + 1
  /\ UNCHANGED <<connected, handler, running, nodes, responses, notRequest>>

\* figma.ui.onmessage for a create_component message, up to the first await
\* that suspends: handleCreateComponent checks the elements, creates the root
\* frame and starts on the first element
StartHandler(msg) ==
  IF NoElements(msg.elements)
  THEN /\ handler' = [handler EXCEPT ![msg.id] =
                        Ended([IdleHandler EXCEPT !.parentId = msg.parentId])]
       /\ responses' = Append(responses,
                              ErrorMessage(msg.id, "No valid HTML elements found"))
       /\ UNCHANGED <<nodes, running>>
  ELSE LET rootFrame == Len(nodes) + 1
       IN /\ nodes' = Append(nodes, NewNode(msg.id, "FRAME", 0))
          /\ handler' = [handler EXCEPT ![msg.id] =
                           [IdleHandler EXCEPT
                              !.pc = "element",
                              !.todo = Tasks(msg.elements, Under(rootFrame),
                                             [i \in 1..Len(msg.elements) |-> i]),
                              !.total = Len(msg.elements),
                              !.parentId = msg.parentId,
                              !.root = rootFrame]]
          /\ running' = msg.id
          /\ UNCHANGED responses

\* the UI hands the plugin a message the server has sent
DeliverMessage ==
  /\ running = 0
  /\ wire # <<>>
  /\ StartHandler(Head(wire))
  /\ wire' = Tail(wire)
  /\ UNCHANGED <<connected, call, nextReq, notRequest>>

\* the UI posts a create_component message of its own
PostMessage ==
  /\ running = 0
  /\ nextReq <= MaxReq
  /\ \E elements \in ElementLists, parentId \in ParentIds :
       StartHandler([id |-> nextReq, elements |-> elements, parentId |-> parentId])
  /\ nextReq' = nextReq + 1
  /\ UNCHANGED <<connected, call, wire, notRequest>>

\* createFigmaNode(element, parent) up to its first font load, or to its end
SynthesiseElement(r) ==
  /\ running = r
  /\ handler[r].pc = "element"
  /\ handler[r].todo # <<>>
  /\ LET h == handler[r]
         task == Head(h.todo)
         el == task.el
         id == Len(nodes) + 1
     IN IF IsTextLeaf(el)
        THEN /\ nodes' = Append(nodes, NewNode(r, "TEXT", task.top))
             /\ handler' = [handler EXCEPT ![r] =
                              [h EXCEPT !.pc = "font", !.todo = Tail(@), !.tier = 1,
                                        !.text = id, !.textParent = task.parent]]
             /\ running' = 0
        ELSE LET framed == AppendChild(Append(nodes, NewNode(r, "FRAME", task.top)),
                                       id, task.parent)
                 children == Tasks(el.children, Under(id),
                                   [i \in 1..Len(el.children) |-> task.top])
             IN IF el.textContent
                THEN /\ nodes' = Append(framed, NewNode(r, "TEXT", task.top))
                     /\ handler' = [handler EXCEPT ![r] =
                                      [h EXCEPT !.pc = "font",
                                                !.todo = children \o Tail(@),
                                                !.tier = 1, !.text = id + 1,
                                                !.textParent = Under(id)]]
                     /\ running' = 0
                ELSE /\ nodes' = framed
                     /\ handler' = [handler EXCEPT ![r] =
                                      [h EXCEPT !.todo = children \o Tail(@)]]
                     /\ running' = r
  /\ UNCHANGED <<connected, call, wire, nextReq, responses, notRequest>>

\* figma.loadFontAsync settles.  Loaded: the text node is attached and the
\* handler goes on.  Rejected: the next attempt, or the exception reaches the
\* catch of figma.ui.onmessage, which posts the error response.
FontSettles(r) ==
  /\ running = 0
  /\ handler[r].pc = "font"
  /\ \E loaded \in BOOLEAN :
       LET h == handler[r]
       IN IF loaded
          THEN /\ nodes' = AppendChild(nodes, h.text, h.textParent)
               /\ handler' = [handler EXCEPT ![r] =
                                [h EXCEPT !.pc = "element", !.tier = 0, !.text = 0]]
               /\ running' = r
               /\ UNCHANGED responses
          ELSE LET failed == AfterFontFailure(h, nodes[h.text].top)
               IN /\ handler' = [handler EXCEPT ![r] =
                                   IF failed.pc = "thrown" THEN Ended(failed) ELSE failed]
                  /\ running' = IF failed.pc = "element" THEN r ELSE 0
                  /\ responses' =
                       IF failed.pc = "thrown"
                       THEN Append(responses, ErrorMessage(r, FontError))
                       ELSE responses
                  /\ UNCHANGED nodes
  /\ UNCHANGED <<connected, call, wire, nextReq, notRequest>>

\* every element is synthesised: handleCreateComponent attaches the root frame
\* and returns, figma.ui.onmessage posts the result
FinishRequest(r) ==
  /\ running = r
  /\ handler[r].pc = "element"
  /\ handler[r].todo = <<>>
  /\ nodes' = AppendChild(nodes, handler[r].root, AttachmentParent(handler[r].parentId))
  /\ handler' = [handler EXCEPT ![r] = Ended(@)]
  /\ responses' = Append(responses, ResultMessage(r, handler[r].root))
  /\ running' = 0
  /\ UNCHANGED <<connected, call, wire, nextReq, notRequest>>

RequestNext ==
  \/ ClientConnects
  \/ ClientDisconnects
  \/ CreateComponent
  \/ DeliverMessage
  \/ PostMessage
  \/ \E r \in Requests : SynthesiseElement(r)
  \/ \E r \in Requests : FontSettles(r)
  \/ \E r \in Requests : FinishRequest(r)

\* ================================================================ transport
MaxMsg == 3           \* messages that are given an id
MaxSockets == 2       \* connections the server accepts

MsgIds == 1..MaxMsg

\* the types of the requests the server's tools send
ToolTypes == {"create_component", "get_status"}

\* the types of the messages the plugin's UI posts to the plugin on its own
UiTypes == {"ping", "connected", "update_component"}

\* the requests figma.ui.onmessage answers without an await that suspends
SyncTypes == {"get_selection", "list_components", "get_status"}

Reply(id, type) == [id |-> id, type |-> type]

\* The ways one call of figma.ui.onmessage can go: the type of the response it
\* posts before it returns, "none" when it returns without a response, "await"
\* when handleCreateComponent waits for a font load.
HandlerOutcomes(type) ==
  CASE type = "ping" -> {"pong"}
    [] type = "connected" -> {"none"}
    [] type = "create_component" -> {"result", "error", "await"}
    [] type \in SyncTypes -> {"result"}
    [] OTHER -> {"error"}

\* the plugin's UI holds the socket it opened last
UiSocketOpen == readyState # <<>> /\ readyState[Len(readyState)] = "OPEN"

\* isConnected()
IsConnected == client # 0 /\ readyState[client] = "OPEN"

PendingForAny(pending, id) ==
  IF pending = {} THEN {} ELSE {CHOOSE x \in pending : TRUE}

\* this.pendingRequests.get(message.id): the entry registered under the id
PendingFor(pending, id) ==
  pending \cap {id}

\* reject(new Error('Connection closed')) for every entry, in insertion order
RECURSIVE RejectAll(_)
RejectAll(pending) ==
  IF pending = {} THEN <<>>
  ELSE LET id == CHOOSE x \in pending : \A y \in pending : x <= y
       IN <<[id |-> id, by |-> "closed"]>> \o RejectAll(pending \ {id})

TransportIdle ==
  /\ wss = "null"
  /\ client = 0
  /\ readyState = <<>>
  /\ pendingRequests = {}
  /\ timers = {}
  /\ settled = <<>>
  /\ nextMsg = 1
  /\ toPlugin = <<>>
  /\ received = <<>>
  /\ suspended = {}
  /\ posted = <<>>
  /\ toServer = <<>>

\* after start(): the server listens, no plugin has connected
TransportInit ==
  /\ wss = "listening"
  /\ client = 0
  /\ readyState = <<>>
  /\ pendingRequests = {}
  /\ timers = {}
  /\ settled = <<>>
  /\ nextMsg = 1
  /\ toPlugin = <<>>
  /\ received = <<>>
  /\ suspended = {}
  /\ posted = <<>>
  /\ toServer = <<>>

\* wss.on('connection'): the socket becomes this.client; a socket accepted
\* earlier is not closed
Connection ==
  /\ wss = "listening"
  /\ Len(readyState) < MaxSockets
  /\ readyState' = Append(readyState, "OPEN")
  /\ client' = Len(readyState) + 1
  /\ UNCHANGED <<pendingRequests, timers, settled, nextMsg, toPlugin, received,
                 suspended, posted, toServer, wss, notTransport>>

\* ws.on('close') of socket s
SocketClose(s) ==
  /\ s \in DOMAIN readyState
  /\ readyState[s] = "OPEN"
  /\ readyState' = [readyState EXCEPT ![s] = "CLOSED"]
  /\ client' = 0
  /\ settled' = settled \o RejectAll(pendingRequests)
  /\ timers' = timers \ pendingRequests
  /\ pendingRequests' = {}
  /\ UNCHANGED <<nextMsg, toPlugin, received, suspended, posted, toServer, wss, notTransport>>

SendUnregistered(type) ==
  /\ nextMsg <= MaxMsg
  /\ IsConnected
  /\ toPlugin' = Append(toPlugin, [id |-> nextMsg, type |-> type, socket |-> client])
  /\ nextMsg' = nextMsg + 1
  /\ UNCHANGED <<timers, pendingRequests, client, readyState, settled, received, suspended,
                 posted, toServer, wss, notTransport>>

\* a tool builds a request with ws.generateId() and calls send(request); send
\* throws when the plugin is not connected
Send(type) ==
  /\ nextMsg <= MaxMsg
  /\ IsConnected
  /\ timers' = timers \cup {nextMsg}
  /\ pendingRequests' = pendingRequests \cup {nextMsg}
  /\ toPlugin' = Append(toPlugin, [id |-> nextMsg, type |-> type, socket |-> client])
  /\ nextMsg' = nextMsg + 1
  /\ UNCHANGED <<client, readyState, settled, received, suspended, posted, toServer,
                 wss, notTransport>>

TimeoutSettlesNothing(id) ==
  /\ id \in timers
  /\ timers' = timers \ {id}
  /\ UNCHANGED <<pendingRequests, settled, client, readyState, nextMsg, toPlugin, received,
                 suspended, posted, toServer, wss, notTransport>>

\* the callback of setTimeout in send
TimeoutFires(id) ==
  /\ id \in timers
  /\ timers' = timers \ {id}
  /\ pendingRequests' = pendingRequests \ {id}
  /\ settled' = Append(settled, [id |-> id, by |-> "timeout"])
  /\ UNCHANGED <<client, readyState, nextMsg, toPlugin, received, suspended, posted,
                 toServer, wss, notTransport>>

\* ws.on('message'): handleMessage(message)
HandleMessage ==
  /\ toServer # <<>>
  /\ UiSocketOpen
  /\ LET message == Head(toServer)
         pending == IF message.type \in {"result", "error", "pong"}
                    THEN PendingFor(pendingRequests, message.id) ELSE {}
     IN /\ timers' = timers \ pending
        /\ settled' = settled \o [k \in 1..Cardinality(pending) |->
                                    [id |-> CHOOSE x \in pending : TRUE,
                                     by |-> message.type]]
        /\ pendingRequests' = pendingRequests \ pending
  /\ toServer' = Tail(toServer)
  /\ UNCHANGED <<client, readyState, nextMsg, toPlugin, received, suspended, posted,
                 wss, notTransport>>

\* The plugin's UI is not part of these sources.  It relays the server's
\* messages to the plugin and the plugin's messages to the server, and posts
\* messages of its own: 'connected' goes to the plugin and to the server.
UiPosts(type) ==
  /\ nextMsg <= MaxMsg
  /\ toPlugin' = Append(toPlugin, [id |-> nextMsg, type |-> type, socket |-> 0])
  /\ toServer' = IF type = "connected" /\ UiSocketOpen
                 THEN Append(toServer, Reply(nextMsg, type)) ELSE toServer
  /\ nextMsg' = nextMsg + 1
  /\ UNCHANGED <<client, readyState, pendingRequests, timers, settled, received,
                 suspended, posted, wss, notTransport>>

\* a request written to a socket that has closed does not reach the plugin
DropRequest ==
  /\ toPlugin # <<>>
  /\ Head(toPlugin).socket # 0
  /\ readyState[Head(toPlugin).socket] = "CLOSED"
  /\ toPlugin' = Tail(toPlugin)
  /\ UNCHANGED <<client, readyState, pendingRequests, timers, settled, nextMsg,
                 received, suspended, posted, toServer, wss, notTransport>>

\* a message of the plugin does not reach the server when the UI has no open
\* socket
DropResponse ==
  /\ toServer # <<>>
  /\ ~UiSocketOpen
  /\ toServer' = Tail(toServer)
  /\ UNCHANGED <<client, readyState, pendingRequests, timers, settled, nextMsg,
                 toPlugin, received, suspended, posted, wss, notTransport>>

\* figma.ui.postMessage(response)
PostResponse(id, outcome) ==
  IF outcome \in {"none", "await"}
  THEN UNCHANGED <<posted, toServer>>
  ELSE /\ posted' = Append(posted, Reply(id, outcome))
       /\ toServer' = Append(toServer, Reply(id, outcome))

\* figma.ui.onmessage(msg), up to its return or to the await that suspends it
OnMessage ==
  /\ toPlugin # <<>>
  /\ LET msg == Head(toPlugin)
     IN /\ received' = Append(received, [id |-> msg.id, type |-> msg.type])
        /\ \E outcome \in HandlerOutcomes(msg.type) :
             /\ suspended' = IF outcome = "await" THEN suspended \cup {msg.id}
                             ELSE suspended
             /\ PostResponse(msg.id, outcome)
  /\ toPlugin' = Tail(toPlugin)
  /\ UNCHANGED <<client, readyState, pendingRequests, timers, settled, nextMsg,
                 wss, notTransport>>

\* the last font load of a suspended handleCreateComponent settles: the run
\* goes on to its return or to the exception that figma.ui.onmessage catches
AwaitSettles(id) ==
  /\ id \in suspended
  /\ suspended' = suspended \ {id}
  /\ \E outcome \in {"result", "error"} : PostResponse(id, outcome)
  /\ UNCHANGED <<client, readyState, pendingRequests, timers, settled, nextMsg,
                 toPlugin, received, wss, notTransport>>

\* stop(): the server stops listening and forgets its client; the entries of
\* pendingRequests and their timers are left as they are, and so are the
\* sockets (whether wss.close() ends them is the library's choice: a close
\* event may follow for each)
Stop ==
  /\ wss = "listening"
  /\ wss' = "null"
  /\ client' = 0
  /\ UNCHANGED <<readyState, pendingRequests, timers, settled, nextMsg, toPlugin,
                 received, suspended, posted, toServer, notTransport>>

MaxInbox == 1         \* messages a socket has delivered and the server not yet handled

\* what a message on the socket can be for the server: a response (result,
\* error and pong are handled alike), or 'connected'
InboxTypes == {"result", "connected"}

\* a socket delivers a message: whatever the other end has written, for the
\* server any id with any of the types handleMessage distinguishes
SocketData(id, type) ==
  /\ UiSocketOpen
  /\ Len(toServer) < MaxInbox
  /\ toServer' = Append(toServer, Reply(id, type))
  /\ UNCHANGED <<wss, client, readyState, pendingRequests, timers, settled, nextMsg,
                 toPlugin, received, suspended, posted, notTransport>>

\* FigmaWebSocketServer with whatever its sockets deliver
ServerNext ==
  \/ Connection
  \/ Stop
  \/ \E s \in 1..MaxSockets : SocketClose(s)
  \/ Send("create_component")
  \/ \E id \in MsgIds : TimeoutFires(id)
  \/ \E id \in MsgIds, type \in InboxTypes : SocketData(id, type)
  \/ HandleMessage
  \/ DropResponse

TransportNext ==
  \/ Connection
  \/ \E s \in 1..MaxSockets : SocketClose(s)
  \/ \E type \in ToolTypes : Send(type)
  \/ \E id \in MsgIds : TimeoutFires(id)
  \/ HandleMessage
  \/ \E type \in UiTypes : UiPosts(type)
  \/ DropRequest
  \/ DropResponse
  \/ OnMessage
  \/ \E id \in MsgIds : AwaitSettles(id)

\* ================================================================ gradients
\* parseLinearGradient / parseRadialGradient of the server's parser.  The text
\* between the parentheses of the gradient function is a sequence of tokens: a
\* colour name, the pieces of rgb(0, 0, 0), a percentage, a blank, a comma, a
\* direction or a shape.
MaxStops == 3         \* entries of a colour-stop list
MaxNested == 3        \* boxes of a container in the distribution pass

\* positions are held in units of 1/PosUnit, so that i / (n - 1) is exact
PosUnit == 100 * LcmUpTo(MaxStops)

RgbTokens == <<"rgb", "(", "0", ",", "0", ",", "0", ")">>

Percents == {"0%", "50%", "100%"}

\* parseFloat of the digits of a percentage
PercentValue(token) ==
  CASE token = "0%" -> 0
    [] token = "50%" -> 50
    [] OTHER -> 100

NoColor == "null"

Rejected == [ok |-> FALSE, stops |-> <<>>]

RECURSIVE TrimStart(_)
TrimStart(str) == IF str # <<>> /\ Head(str) = " " THEN TrimStart(Tail(str)) ELSE str

RECURSIVE TrimEnd(_)
TrimEnd(str) ==
  IF str # <<>> /\ str[Len(str)] = " " THEN TrimEnd(SubSeq(str, 1, Len(str) - 1)) ELSE str

\* String.prototype.trim
Trim(str) == TrimEnd(TrimStart(str))

\* the loop that splits stopsStr at the commas outside parentheses
RECURSIVE SplitStops(_, _, _, _)
SplitStops(str, parenDepth, current, stopParts) ==
  IF str = <<>>
  THEN IF Trim(current) # <<>> THEN Append(stopParts, Trim(current)) ELSE stopParts
  ELSE LET char == Head(str)
           depth == IF char = "(" THEN parenDepth + 1
                    ELSE IF char = ")" THEN parenDepth - 1 ELSE parenDepth
       IN IF char = "," /\ depth = 0
          THEN SplitStops(Tail(str), depth, <<>>, Append(stopParts, Trim(current)))
          ELSE SplitStops(Tail(str), depth, Append(current, char), stopParts)

\* parseColor: a colour name, or an rgb(...) anywhere in the text
ParseColor(colorStr) ==
  IF colorStr \in {<<"red">>, <<"blue">>} THEN colorStr[1]
  ELSE IF \E k \in 1..Len(colorStr) :
            /\ k + Len(RgbTokens) - 1 <= Len(colorStr)
            /\ SubSeq(colorStr, k, k + Len(RgbTokens) - 1) = RgbTokens
       THEN "rgb"
       ELSE NoColor

\* one iteration of the loop over stopParts, i counting from 0: the stop the
\* entry adds to stops, if any
ParseStop(stopParts, i) ==
  LET part == Trim(stopParts[i + 1])
      posMatch == Len(part) >= 2 /\ part[Len(part)] \in Percents
                  /\ part[Len(part) - 1] = " "
      colorStr == IF posMatch THEN Trim(SubSeq(part, 1, Len(part) - 1)) ELSE part
      color == ParseColor(colorStr)
      position == IF posMatch THEN (PercentValue(part[Len(part)]) * PosUnit) \div 100
                  ELSE IF Len(stopParts) > 1
                       THEN (i * PosUnit) \div (Len(stopParts) - 1)
                       ELSE 0
  IN IF part = <<>> \/ color = NoColor THEN <<>>
     ELSE <<[position |-> position, color |-> color]>>

RECURSIVE StopsFrom(_, _)
StopsFrom(stopParts, i) ==
  IF i >= Len(stopParts) THEN <<>>
  ELSE ParseStop(stopParts, i) \o StopsFrom(stopParts, i + 1)

\* from content.slice(colorStopsStart) to the return
ParseStops(content, colorStopsStart) ==
  LET stopsStr == Trim(SubSeq(content, colorStopsStart + 1, Len(content)))
      stops == StopsFrom(SplitStops(stopsStr, 0, <<>>, <<>>), 0)
  IN IF Len(stops) < 2 THEN Rejected ELSE [ok |-> TRUE, stops |-> stops]

StartsWith(content, first) ==
  Len(content) >= 2 /\ content[1] \in first /\ content[2] = ","

\* parseLinearGradient(value), value being linear-gradient(content)
ParseLinearGradient(content) ==
  ParseStops(content, IF StartsWith(content, {"90deg", "to right"}) THEN 2 ELSE 0)

\* parseRadialGradient(value), value being radial-gradient(content)
ParseRadialGradient(content) ==
  ParseStops(content, IF StartsWith(content, {"circle"}) THEN 2 ELSE 0)

\* the entries of a colour-stop list
StopEntries ==
  { <<"red">>, <<"blue">>, RgbTokens, <<"bogus">>, <<>>, <<"50%">>,
    <<"red", " ", "50%">>, <<"blue", " ", "100%">> }

StopLists == UNION {[1..n -> StopEntries] : n \in 0..MaxStops}

\* what stands before the colour stops
Prefixes == {<<>>, <<"90deg", ",">>, <<"to right", ",">>, <<"circle", ",">>}

RECURSIVE JoinEntries(_)
JoinEntries(entries) ==
  IF entries = <<>> THEN <<>>
  ELSE IF Len(entries) = 1 THEN entries[1]
  ELSE entries[1] \o <<",", " ">> \o JoinEntries(Tail(entries))

\* the text between the parentheses
ContentOf(input) == input.prefix \o <<" ">> \o JoinEntries(input.entries)

GradientIdle ==
  /\ gradientInput = [fn |-> "linear", prefix |-> <<>>, entries |-> <<>>]
  /\ gradientResult = Rejected
  /\ gradientPc = "idle"

GradientInit ==
  /\ gradientInput \in {[fn |-> fn, prefix |-> prefix, entries |-> entries] :
                          fn \in {"linear", "radial"}, prefix \in Prefixes,
                          entries \in StopLists}
  /\ gradientResult = Rejected
  /\ gradientPc = "fresh"

ParseGradient ==
  /\ gradientPc = "fresh"
  /\ gradientResult' = IF gradientInput.fn = "linear"
                       THEN ParseLinearGradient(ContentOf(gradientInput))
                       ELSE ParseRadialGradient(ContentOf(gradientInput))
  /\ gradientPc' = "parsed"
  /\ UNCHANGED <<gradientInput, notGradient>>

\* ------------------------------------------- createFigmaNode: the text node
\* The text of an element is made at two places: as the node of a text leaf
\* and as the text child of a frame.  Both compute a font style from the
\* weight and the italic flag, call figma.loadFontAsync up to three times and
\* then assign the characters.
Faces == [family : {"Inter", "Roboto"},
          style : {"Regular", "Italic", "Light", "Light Italic", "Medium",
                   "Medium Italic", "Semi Bold", "Semi Bold Italic", "Bold",
                   "Bold Italic"}]

\* styles.fontWeight as a number; 'bold' is 700 and any other word 400
Weight(fontWeight) ==
  IF IsNum(fontWeight) THEN Val(fontWeight)
  ELSE IF fontWeight.k = "bold" THEN 700 ELSE 400

\* if (styles.fontWeight): undefined and 0 are falsy
HasWeight(fontWeight) ==
  ~IsUndef(fontWeight) /\ ~(IsNum(fontWeight) /\ Val(fontWeight) = 0)

IsItalic(input) == input.fontStyle \in {"italic", "oblique"}

ItalicOf(style) == IF style = "Regular" THEN "Italic" ELSE style \o " Italic"

\* the style chosen from the weight; only the text leaf knows Light
WeightStyle(input) ==
  LET weight == Weight(input.fontWeight)
      upright == IF weight >= 700 THEN "Bold"
                 ELSE IF weight >= 600 THEN "Semi Bold"
                 ELSE IF weight >= 500 THEN "Medium"
                 ELSE IF input.path = "leaf" /\ weight <= 300 THEN "Light"
                 ELSE "Regular"
  IN  IF IsItalic(input) THEN ItalicOf(upright) ELSE upright

IsHeading(tagName) == tagName \in {"h1", "h2", "h3", "h4", "h5", "h6", "header"}

\* fontStyle as createFigmaNode computes it before the first load
FontStyle(input) ==
  LET fromWeight == IF HasWeight(input.fontWeight) THEN WeightStyle(input)
                    ELSE IF IsItalic(input) THEN "Italic" ELSE "Regular"
  IN  IF input.path = "leaf" /\ IsHeading(input.tagName)
      THEN (IF IsItalic(input) THEN "Bold Italic" ELSE "Bold")
      ELSE fromWeight

\* styles.fontFamily || 'Inter'
FontFamily(input) ==
  IF input.fontFamily = NoStr THEN "Inter" ELSE input.fontFamily

\* the face the tier-th call of figma.loadFontAsync asks for
TierFace(input, tier) ==
  IF tier = 1 THEN [family |-> FontFamily(input), style |-> FontStyle(input)]
  ELSE IF tier = 2 THEN [family |-> "Inter", style |-> FontStyle(input)]
  ELSE [family |-> "Inter", style |-> "Regular"]

\* a rejected load is followed by the next one; the mutant calls the same again
SameTier(tier) == tier

NextTier(tier) == tier + 1

\* figma.createText(): Inter Regular, no characters; loads is the history of
\* the calls of figma.loadFontAsync with how each settled
NewText ==
  [fontName |-> [family |-> "Inter", style |-> "Regular"], characters |-> FALSE,
   loads |-> <<>>]

TextInputs ==
  [path : {"leaf"}, tagName : {"span", "h1"}, fontFamily : {NoStr, "Inter", "Roboto"},
   fontWeight : {Undef, Num(0), Num(300), Num(400), Num(500), Num(600), Num(700)},
   fontStyle : {NoStr, "normal", "italic"}]
  \cup
  [path : {"frame"}, tagName : {"button", "h1"},
   fontFamily : {NoStr, "Inter", "Roboto"},
   fontWeight : {Undef, Num(0), Num(300), Num(400), Num(500), Num(600), Num(700)},
   fontStyle : {NoStr, "normal", "italic"}]

FontIdle ==
  /\ textInput = [path |-> "leaf", tagName |-> "span", fontFamily |-> NoStr,
                  fontWeight |-> Undef, fontStyle |-> NoStr]
  /\ textNode = NewText
  /\ fontTier = 0
  /\ fontPc = "idle"

FontInit ==
  /\ textInput \in TextInputs
  /\ textNode = NewText
  /\ fontTier = 1
  /\ fontPc = "call"

\* await figma.loadFontAsync({ family, style }): the call
LoadFontAsync ==
  /\ fontPc = "call"
  /\ textNode' = [textNode EXCEPT !.loads =
                    Append(@, [face |-> TierFace(textInput, fontTier),
                               outcome |-> "pending"])]
  /\ fontPc' = "await"
  /\ UNCHANGED <<textInput, fontTier, notFont>>

\* the load resolves: textNode.fontName = { family, style }
LoadResolves ==
  /\ fontPc = "await"
  /\ textNode' = [textNode EXCEPT !.loads[Len(textNode.loads)].outcome = "loaded",
                                  !.fontName = TierFace(textInput, fontTier)]
  /\ fontPc' = "loaded"
  /\ UNCHANGED <<textInput, fontTier, notFont>>

\* the load rejects: the catch block makes the next call; the third call has
\* no catch block and its rejection leaves createFigmaNode
LoadRejects ==
  /\ fontPc = "await"
  /\ textNode' = [textNode EXCEPT !.loads[Len(textNode.loads)].outcome = "rejected"]
  /\ IF fontTier < LastTier
     THEN fontTier' = NextTier(fontTier) /\ fontPc' = "call"
     ELSE fontTier' = fontTier /\ fontPc' = "rejected"
  /\ UNCHANGED <<textInput, notFont>>

\* textNode.characters = transformedText
SetCharacters ==
  /\ fontPc = "loaded"
  /\ textNode' = [textNode EXCEPT !.characters = TRUE]
  /\ fontPc' = "done"
  /\ UNCHANGED <<textInput, fontTier, notFont>>

FontNext == LoadFontAsync \/ LoadResolves \/ LoadRejects \/ SetCharacters

\* ------------------------- the distribution pass over children with children
\* The container at the start of the pass: its children have been created,
\* each with its own children, and the flex-grow children are in the tables.
\* Box k of the container has id k, its j-th child id 10k + j, and so on.
Leaf(id, name, w) ==
  [Appended(NewFrame(id)) EXCEPT !.name = name, !.width = w, !.height = Px(ChildHeight)]

\* a row of a fixed child and a flex-grow child
RowOf(id, justify) ==
  [Leaf(id, "div", Px(ChildWidth)) EXCEPT
     !.layoutMode = "HORIZONTAL", !.primaryAxisAlignItems = justify,
     !.children = <<Leaf(10 * id + 1, "div", Px(ChildWidth)),
                    SetLayoutGrow(Leaf(10 * id + 2, "div", Px(ChildWidth)),
                                  "HORIZONTAL")>>]

\* a column that holds a space-between row
ColumnOf(id) ==
  [Leaf(id, "div", Px(ChildWidth)) EXCEPT
     !.layoutMode = "VERTICAL", !.children = <<RowOf(10 * id + 1, "SPACE_BETWEEN")>>]

ChildKinds ==
  {"fixed", "grow1", "grow2", "spacer", "margin-left", "placeholder", "text", "row",
   "column", "absolute"}

KindBox(kind, id) ==
  CASE kind = "fixed" -> Leaf(id, "div", Px(ChildWidth))
    [] kind \in {"grow1", "grow2"} -> Leaf(id, "div", Px(ChildWidth))
    [] kind = "spacer" -> [Leaf(id, "spacer", Px(1)) EXCEPT !.height = Px(1)]
    [] kind = "margin-left" -> [Leaf(id, "margin-left", Px(MarginSize)) EXCEPT
                                  !.height = Px(1)]
    [] kind = "placeholder" -> Leaf(id, "relative-placeholder", Px(ChildWidth))
    [] kind = "text" -> [Leaf(id, "span", Px(ChildWidth)) EXCEPT !.type = "TEXT"]
    [] kind = "row" -> RowOf(id, "MIN")
    [] kind = "column" -> ColumnOf(id)
    [] kind = "absolute" -> [Leaf(id, "div", Px(ChildWidth)) EXCEPT
                               !.layoutPositioning = "ABSOLUTE"]

\* the flex-grow weight the child element of the box carries, 0 for none
KindWeight(kind) ==
  IF kind \in {"grow1", "row", "column"} THEN 1 ELSE IF kind = "grow2" THEN 2 ELSE 0

\* flexGrowMap of the container
KindsFlexGrowMap(kinds) ==
  [k \in {i \in 1..Len(kinds) : KindWeight(kinds[i]) > 0} |-> KindWeight(kinds[k])]

\* nestedFlexGrowMap: the same entries and the flex-grow children of the rows
KindsNestedMap(kinds) ==
  LET rows == {k \in 1..Len(kinds) : kinds[k] = "row"}
      columns == {k \in 1..Len(kinds) : kinds[k] = "column"}
      ids == {k \in 1..Len(kinds) : KindWeight(kinds[k]) > 0}
             \cup {10 * k + 2 : k \in rows}
             \cup {10 * (10 * k + 1) + 2 : k \in columns}
  IN [id \in ids |-> IF id <= Len(kinds) THEN KindWeight(kinds[id]) ELSE 1]

KindLists == UNION {[1..n -> ChildKinds] : n \in 0..MaxNested}

DistContainers ==
  {[Appended(NewFrame(0)) EXCEPT
      !.name = "div", !.layoutMode = mode, !.width = Px(w), !.height = Px(w),
      !.paddingLeft = Px(pad), !.paddingRight = Px(pad), !.paddingTop = Px(pad),
      !.paddingBottom = Px(pad), !.itemSpacing = Px(gap)] :
     mode \in {"HORIZONTAL", "VERTICAL"}, w \in {ContainerSize, 2 * ContainerSize},
     pad \in {0, PadSize}, gap \in {0, GapSize}}

DistInputs ==
  {[frame |-> [c EXCEPT !.children = [k \in 1..Len(kinds) |-> KindBox(kinds[k], k)]],
    flexGrowMap |-> KindsFlexGrowMap(kinds),
    nestedFlexGrowMap |-> KindsNestedMap(kinds)] :
     c \in DistContainers, kinds \in KindLists}

DistIdle ==
  /\ distInput = [frame |-> NewFrame(0), flexGrowMap |-> <<>>,
                  nestedFlexGrowMap |-> <<>>]
  /\ distResult = NewFrame(0)
  /\ distPc = "idle"

DistInit ==
  /\ distInput \in DistInputs
  /\ distResult = distInput.frame
  /\ distPc = "start"

\* createFigmaNode, the flex-grow distribution of the container
RunDistribution ==
  /\ distPc = "start"
  /\ distResult' = DistributeFlexGrow(distInput.frame, distInput.flexGrowMap,
                                      distInput.nestedFlexGrowMap, Undef)
  /\ distPc' = "done"
  /\ UNCHANGED <<distInput, notDist>>

\* ============================================ the attach step on its own
AspectRatio == 2      \* aspect-ratio drawn for the attached element

\* what an element may declare for its width or height
SizeOptions(v) == {Undef, Num(v), Sym("fill"), Sym("auto")}

AttachStyles ==
  {[EmptyStyle EXCEPT !.display = d, !.width = w, !.height = h, !.flexGrow = g,
                      !.alignSelf = a, !.aspectRatio = r, !.justifyContent = j]
     : d \in {NoStr, "inline-block", "flex"}, w \in SizeOptions(Px(StyleWidth)),
       h \in SizeOptions(Px(StyleHeight)), g \in OneOf(1), a \in {NoStr, "center"},
       r \in OneOf(AspectRatio), j \in {NoStr, "space-between"}}

\* the parents an element is attached to: without auto layout, a row, a
\* column, with and without an explicit align-items
AttachParents ==
  {[layoutMode |-> m, explicitAlignItems |-> e]
     : m \in {"NONE", "HORIZONTAL", "VERTICAL"}, e \in BOOLEAN}

AttachInputs ==
  {[tagName |-> t, styles |-> st, hasChildren |-> c, parent |-> p]
     : t \in {"div", "span"}, st \in AttachStyles, c \in BOOLEAN, p \in AttachParents}

AttachIdle ==
  /\ attachInput = [tagName |-> "div", styles |-> EmptyStyle, hasChildren |-> FALSE,
                    parent |-> RootView]
  /\ attachResult = FreshStyleResult
  /\ attachPc = "idle"

AttachInit ==
  /\ attachInput \in AttachInputs
  /\ attachResult = FreshStyleResult
  /\ attachPc = "fresh"

\* createFigmaNode from figma.createFrame() to the align-self rule
AttachElement ==
  /\ attachPc = "fresh"
  /\ \E parentWidth \in OneOf(Px(StyleParentWidth)) :
       attachResult' = CreateFrameNode(1, 0, attachInput.tagName, attachInput.styles,
                                       attachInput.hasChildren, attachInput.parent,
                                       parentWidth)
  /\ attachPc' = "attached"
  /\ UNCHANGED <<attachInput, notAttach>>

\* ======================================================= the specifications
Init ==
  LayoutInit /\ StylesIdle /\ RequestIdle /\ TransportIdle /\ GradientIdle /\ FontIdle
  /\ DistIdle /\ AttachIdle

Next == LayoutNext

\* createFigmaNode on one container element
Spec == Init /\ [][Next]_vars

\* applyFrameStyles on one frame
InitStyles ==
  StylesInit /\ LayoutIdle /\ RequestIdle /\ TransportIdle /\ GradientIdle /\ FontIdle
  /\ DistIdle /\ AttachIdle

NextStyles == ApplyStyles

SpecStyles == InitStyles /\ [][NextStyles]_vars

\* create_component requests, from the server's tool to the plugin's response
InitRequest ==
  RequestInit /\ LayoutIdle /\ StylesIdle /\ TransportIdle /\ GradientIdle /\ FontIdle
  /\ DistIdle /\ AttachIdle

SpecRequest == InitRequest /\ [][RequestNext]_vars

\* the server's socket, the messages in flight and the plugin's handler; every
\* font load the handler waits for settles
InitTransport ==
  TransportInit /\ LayoutIdle /\ StylesIdle /\ RequestIdle /\ GradientIdle /\ FontIdle
  /\ DistIdle /\ AttachIdle

SpecTransport ==
  /\ InitTransport
  /\ [][TransportNext]_vars
  /\ \A id \in MsgIds : WF_vars(AwaitSettles(id))

\* FigmaWebSocketServer on its own, stop() included; a timer that is not
\* cleared fires
SpecServer ==
  /\ InitTransport
  /\ [][ServerNext]_vars
  /\ \A id \in MsgIds : WF_vars(TimeoutFires(id))

\* parseLinearGradient / parseRadialGradient on one colour-stop list
InitGradient ==
  GradientInit /\ LayoutIdle /\ StylesIdle /\ RequestIdle /\ TransportIdle /\ FontIdle
  /\ DistIdle /\ AttachIdle

NextGradient == ParseGradient

SpecGradient == InitGradient /\ [][NextGradient]_vars

\* the font loading and the characters of one text node
InitFont ==
  FontInit /\ LayoutIdle /\ StylesIdle /\ RequestIdle /\ TransportIdle /\ GradientIdle
  /\ DistIdle /\ AttachIdle

SpecFont == InitFont /\ [][FontNext]_vars

\* the distribution pass with the nested recalculation
InitDistribution ==
  DistInit /\ LayoutIdle /\ StylesIdle /\ RequestIdle /\ TransportIdle /\ GradientIdle
  /\ FontIdle /\ AttachIdle

NextDistribution == RunDistribution

SpecDistribution == InitDistribution /\ [][NextDistribution]_vars

\* the attach step of one element
InitAttach ==
  AttachInit /\ LayoutIdle /\ StylesIdle /\ RequestIdle /\ TransportIdle /\ GradientIdle
  /\ FontIdle /\ DistIdle

NextAttach == AttachElement

SpecAttach == InitAttach /\ [][NextAttach]_vars

\* ================================================= properties of the layout
Boxes == 1..Len(frame.children)

Box(k) == frame.children[k]

\* the child element a box of the container was created for
ChildOf(box) == element.children[box.src]

FromAbsolute(box) == IsAbsolute(ChildOf(box))

InFlow(box) == box.layoutPositioning # "ABSOLUTE"

\* the box createFigmaNode returned for a relatively-offset normal-flow child
IsRelativeChildBox(box) ==
  box.name = "div" /\ ~FromAbsolute(box) /\ IsRelativeOffset(ChildOf(box))

IsOverlayBox(box) == FromAbsolute(box) /\ ZIndexOf(ChildOf(box)) >= 1

\* C1: when createFigmaNode has finished the children of an element, every
\* box of an absolute/fixed child with z-index below 1 (no z-index counts as 0)
\* stands before every box that comes from a normal-flow child, and every box
\* of an absolute/fixed child with z-index 1 or more stands after all of them.
C1_StackingOrder ==
  pc = "done" =>
    \A a, b \in Boxes :
      FromAbsolute(Box(a)) /\ ~FromAbsolute(Box(b)) =>
        IF ZIndexOf(ChildOf(Box(a))) < 1 THEN a < b ELSE b < a

\* a finished container with a background box, a normal-flow box and an overlay
C1_Witness ==
  /\ pc = "done"
  /\ \E a, b, c \in Boxes :
       /\ FromAbsolute(Box(a)) /\ ZIndexOf(ChildOf(Box(a))) = 0
       /\ ~FromAbsolute(Box(b))
       /\ FromAbsolute(Box(c)) /\ ZIndexOf(ChildOf(Box(c))) = 2
       /\ Box(a).src > Box(b).src /\ Box(b).src > Box(c).src

\* C2: within the background absolute boxes and within the overlay absolute
\* boxes, the boxes stand in ascending z-index in the parent's child list, and
\* two boxes of the same z-index stand in document order.
C2_ZIndexOrder ==
  pc = "done" =>
    \A a, b \in Boxes :
      LET zA == ZIndexOf(ChildOf(Box(a)))
          zB == ZIndexOf(ChildOf(Box(b)))
      IN a < b /\ FromAbsolute(Box(a)) /\ FromAbsolute(Box(b))
         /\ ((zA < 1) <=> (zB < 1))
         => zA < zB \/ (zA = zB /\ Box(a).src < Box(b).src)

\* a finished container with two absolute boxes of one z-index and, before
\* them, a box of a lower z-index that comes later in the document
C2_Witness ==
  /\ pc = "done"
  /\ \E a, b, c \in Boxes :
       /\ a < b /\ b < c
       /\ FromAbsolute(Box(a)) /\ FromAbsolute(Box(b)) /\ FromAbsolute(Box(c))
       /\ ZIndexOf(ChildOf(Box(a))) < ZIndexOf(ChildOf(Box(b)))
       /\ ZIndexOf(ChildOf(Box(b))) = ZIndexOf(ChildOf(Box(c)))
       /\ Box(a).src > Box(c).src

\* ------------------------------------------------- flex-grow distribution
RegisteredBoxes == {k \in Boxes : IsRegistered(flexGrowMap, Box(k))}

IsHorizontal == frame.layoutMode = "HORIZONTAL"

MainSizing(box) ==
  IF IsHorizontal THEN box.layoutSizingHorizontal ELSE box.layoutSizingVertical

\* the available space of the finished container: the pass changes neither
\* the container nor the size of a child that is not registered
Available == AvailableSpace(frame, flexGrowMap, StoredWidth(frame.id))

RegisteredWeight == SumOver(frame.children,
                            LAMBDA c : IF IsRegistered(flexGrowMap, c)
                                       THEN flexGrowMap[c.id] ELSE 0)

RegisteredSize == SumOver(frame.children,
                          LAMBDA c : IF IsRegistered(flexGrowMap, c)
                                     THEN MainSize(c, IsHorizontal) ELSE 0)

CountedRegisteredSize ==
  SumOver(frame.children,
          LAMBDA c : IF IsCounted(c) /\ IsRegistered(flexGrowMap, c)
                     THEN MainSize(c, IsHorizontal) ELSE 0)

\* C3, as claimed: for every auto-layout container with at least one child
\* registered with a positive flex-grow weight and a positive available space,
\* each registered child has main size available * weight / totalWeight and is
\* FIXED on the main axis, and the registered children's sizes sum to the
\* available space.
C3_AsClaimed ==
  pc = "done" /\ frame.layoutMode # "NONE" /\ RegisteredBoxes # {} /\ Available > 0 =>
    /\ \A k \in RegisteredBoxes :
         /\ MainSize(Box(k), IsHorizontal) * RegisteredWeight
              = Available * flexGrowMap[Box(k).id]
         /\ MainSizing(Box(k)) = "FIXED"
    /\ RegisteredSize = Available

\* C3, corrected: the pass runs only for a container with more than one
\* counted child (in flow, not a spacer or wrapper) whose counted registered
\* children have a positive total weight; with a positive available space it
\* gives every registered child the main size available * weight / totalWeight,
\* totalWeight being the sum over the counted registered children, and makes
\* it FIXED on the main axis; the sizes of the counted registered children sum
\* to the available space.
C3_Distribution ==
  pc = "done" /\ frame.layoutMode # "NONE" /\ GapCount(frame.children) > 1
  /\ TotalFlexGrow(frame.children, flexGrowMap) > 0 /\ Available > 0 =>
    /\ \A k \in RegisteredBoxes :
         /\ MainSize(Box(k), IsHorizontal) * TotalFlexGrow(frame.children, flexGrowMap)
              = Available * flexGrowMap[Box(k).id]
         /\ MainSizing(Box(k)) = "FIXED"
    /\ CountedRegisteredSize = Available

\* a finished container whose pass gave two counted children of weights 1 and
\* MaxGrow their shares, next to a fixed-size sibling
C3_Witness ==
  /\ pc = "done"
  /\ GapCount(frame.children) > 2
  /\ Available > 0
  /\ \E a, b \in RegisteredBoxes :
       /\ IsCounted(Box(a)) /\ IsCounted(Box(b))
       /\ flexGrowMap[Box(a).id] = 1 /\ flexGrowMap[Box(b).id] = MaxGrow
       /\ MainSize(Box(b), IsHorizontal) = MaxGrow * MainSize(Box(a), IsHorizontal)
       /\ MainSize(Box(a), IsHorizontal) + MainSize(Box(b), IsHorizontal) = Available

\* ------------------------------------------------ relatively-offset children
RegularIndices == {i \in 1..Len(element.children) : ~IsAbsolute(element.children[i])}

RelativeIndices == {i \in RegularIndices : IsRelativeOffset(element.children[i])}

\* C8, as claimed: for every normal-flow child with position: relative and one
\* of top / left / bottom / right, after synthesis a placeholder of the child's
\* size stands in the parent's child list at the child's flow position, between
\* the boxes of the earlier and of the later normal-flow children, and the
\* child is out of flow at the placeholder's coordinates plus (left or -right,
\* top or -bottom).  (The sizes are compared for a child whose size the
\* distribution pass does not change after the offset step.)
C8_AsClaimed ==
  pc = "done" =>
    \A i \in RelativeIndices :
      \E p, c \in Boxes :
        /\ Box(p).name = "relative-placeholder" /\ Box(p).src = i
        /\ InFlow(Box(p))
        /\ \A q \in Boxes : InFlow(Box(q)) /\ ~FromAbsolute(Box(q)) =>
             IF q < p THEN Box(q).src <= i ELSE Box(q).src >= i
        /\ Box(c).name = "div" /\ Box(c).src = i
        /\ ~InFlow(Box(c))
        /\ Box(c).id \in DOMAIN flexGrowMap
           \/ (Box(p).width = Box(c).width /\ Box(p).height = Box(c).height)
        /\ Box(c).x = Box(p).x + RelativeOffsetX(element.children[i])
        /\ Box(c).y = Box(p).y + RelativeOffsetY(element.children[i])

\* C9, as claimed: after the parent's synthesis a relatively-offset child is
\* the last entry of the parent's child list.
C9_AsClaimed ==
  pc = "done" =>
    \A k \in Boxes : IsRelativeChildBox(Box(k)) => k = Len(frame.children)

\* C9, corrected: after the parent's synthesis a relatively-offset child that
\* was taken out of flow stands after every normal-flow box, spacer, wrapper
\* and placeholder, after every background absolute box and after the
\* relatively-offset children that precede it in the document; only the
\* relatively-offset children that follow it in the document and the overlay
\* absolute boxes (z-index 1 or more) stand after it.
C9_RelativeAboveFlow ==
  pc = "done" =>
    \A k, j \in Boxes :
      IsRelativeChildBox(Box(k)) /\ ~InFlow(Box(k)) /\ j # k =>
        (k < j <=> \/ IsOverlayBox(Box(j))
                   \/ /\ IsRelativeChildBox(Box(j)) /\ ~InFlow(Box(j))
                      /\ Box(j).src > Box(k).src)

\* a finished container in which a relatively-offset child has moved behind
\* the box of a later normal-flow sibling and is followed by an overlay box
C9_Witness ==
  /\ pc = "done"
  /\ \E k, j, o \in Boxes :
       /\ IsRelativeChildBox(Box(k)) /\ ~InFlow(Box(k))
       /\ j < k /\ ~FromAbsolute(Box(j)) /\ Box(j).name = "div"
       /\ Box(j).src > Box(k).src
       /\ k < o /\ IsOverlayBox(Box(o))

\* ------------------------------------------------------- margin-top: auto
AutoIndices == {i \in RegularIndices : element.children[i].marginTop.k = "auto"}

C4_AsClaimed ==
  stylesPc = "styled" /\ IsUndef(styleInput.scaleX) /\ IsUndef(styleInput.scaleY) =>
    LET f == styleResult.frame
    IN /\ IsNum(styleInput.width) =>
            f.width = Val(styleInput.width) + f.paddingLeft + f.paddingRight
       /\ IsNum(styleInput.height) =>
            f.height = Val(styleInput.height) + f.paddingTop + f.paddingBottom

\* ================================================== properties of requests
ResponsesTo(r) == SelectSeq(responses, LAMBDA m : m.id = r)

NodesOf(r) == {i \in 1..Len(nodes) : nodes[i].req = r}

\* element `top` of request r has a box directly under the root frame
Synthesised(r, top) ==
  \E i \in NodesOf(r) : nodes[i].top = top /\ nodes[i].parent = Under(handler[r].root)

\* every node of the request but `root` hangs under a node of the request
HangsTogether(r, root) ==
  \A i \in NodesOf(r) \ {root} :
    nodes[i].parent.k = "node" /\ nodes[nodes[i].parent.v].req = r

\* C5: when the element list is empty, synthesis fails before any box is
\* created: createComponent on the server sends no message to the plugin, and
\* handleCreateComponent throws the 'no elements' error before the root frame
\* or any other node is created.
C5_NoElements ==
  /\ \A k \in 1..Len(call) :
       call[k].n = 0 =>
         /\ call[k].outcome \in {"no-elements", "not-connected"}
         /\ \A j \in 1..Len(wire) : wire[j].id # call[k].id
         /\ handler[call[k].id].pc = "idle"
         /\ NodesOf(call[k].id) = {}
  /\ \A r \in Requests :
       handler[r].pc # "idle" /\ handler[r].total = 0 =>
         /\ handler[r].pc = "done"
         /\ ResponsesTo(r) = <<ErrorMessage(r, "No valid HTML elements found")>>
         /\ handler[r].root = 0
         /\ NodesOf(r) = {}

\* the server has refused an empty element list while connected, and the
\* plugin has answered a message with an empty element list
C5_Witness ==
  /\ \E k \in 1..Len(call) : call[k].n = 0 /\ call[k].outcome = "no-elements"
  /\ \E r \in Requests :
       /\ handler[r].pc = "done" /\ handler[r].total = 0
       /\ Len(ResponsesTo(r)) = 1

\* C6, as claimed: every create_component request ends in exactly one of two
\* outcomes: a result naming a root box that is attached to the attachment
\* parent and under which every input element was synthesised, or an error,
\* and then no box built for the request is attached to the attachment parent.
C6_AsClaimed ==
  \A r \in Requests :
    IF handler[r].pc # "done" THEN ResponsesTo(r) = <<>>
    ELSE /\ Len(ResponsesTo(r)) = 1
         /\ LET m == ResponsesTo(r)[1]
                parent == AttachmentParent(handler[r].parentId)
            IN IF m.type = "result"
               THEN /\ m.nodeId = handler[r].root
                    /\ nodes[m.nodeId].req = r
                    /\ nodes[m.nodeId].parent = parent
                    /\ \A top \in 1..handler[r].total : Synthesised(r, top)
                    /\ HangsTogether(r, m.nodeId)
               ELSE \A i \in NodesOf(r) : nodes[i].parent # parent

RepliesTo(id) == SelectSeq(posted, LAMBDA m : m.id = id)

\* the plugin has received message id, and it is not a 'connected' message
IsRequest(id) ==
  \E k \in 1..Len(received) : received[k].id = id /\ received[k].type # "connected"

Answered(id) == Len(RepliesTo(id)) = 1

\* at every moment: a message the plugin has received has no response while
\* its handler waits and when it is 'connected', and has one response
\* otherwise; the server has settled by a response only the request whose id
\* that response carries
OneResponseSoFar ==
  /\ \A k \in 1..Len(received) :
       LET msg == received[k]
           replies == RepliesTo(msg.id)
       IN IF msg.type = "connected" \/ msg.id \in suspended
          THEN replies = <<>>
          ELSE /\ Len(replies) = 1
               /\ IF msg.type = "ping" THEN replies[1].type = "pong"
                  ELSE replies[1].type \in {"result", "error"}
  /\ \A k \in 1..Len(posted) : \E j \in 1..Len(received) : received[j].id = posted[k].id
  /\ \A k \in 1..Len(settled) :
       settled[k].by \in {"result", "error", "pong"} =>
         /\ \E j \in 1..Len(posted) : posted[j] = Reply(settled[k].id, settled[k].by)
         /\ \A j \in 1..Len(settled) : settled[j].id = settled[k].id => j = k

\* C11: each message the plugin receives, other than 'connected', is answered
\* by exactly one response that carries the message's id: pong for ping,
\* otherwise result or error, posted once the handler's font loads have
\* settled; on the server a response settles only the pending request that is
\* registered under the id it carries.
C11_OneResponse ==
  /\ []OneResponseSoFar
  /\ \A id \in MsgIds : IsRequest(id) ~> Answered(id)

\* a ping has its pong, the response to a create_component request has settled
\* that request on the server, and another request is still pending
C11_Witness ==
  \E a, b, c \in MsgIds :
    /\ \E k \in 1..Len(received) : received[k] = [id |-> c, type |-> "ping"]
    /\ RepliesTo(c) = <<Reply(c, "pong")>>
    /\ \E k \in 1..Len(received) : received[k] = [id |-> b, type |-> "create_component"]
    /\ \E k \in 1..Len(settled) : settled[k].id = b /\ settled[k].by \in {"result", "error"}
    /\ a \in pendingRequests /\ a # b

\* ================================================ properties of the gradients
GivesPosition(entry) == entry # <<>> /\ entry[Len(entry)] \in Percents

\* the colour an entry names, NoColor when it names none
EntryColor(entry) ==
  ParseColor(IF GivesPosition(entry) THEN Trim(SubSeq(entry, 1, Len(entry) - 1))
             ELSE entry)

ValidEntries == SelectSeq(gradientInput.entries, LAMBDA e : EntryColor(e) # NoColor)

\* one stop per valid entry, in order, and no gradient for fewer than two
OneStopPerValidEntry ==
  gradientPc = "parsed" =>
    IF Len(ValidEntries) < 2 THEN gradientResult = Rejected
    ELSE /\ gradientResult.ok
         /\ Len(gradientResult.stops) = Len(ValidEntries)
         /\ \A k \in 1..Len(ValidEntries) :
              gradientResult.stops[k].color = EntryColor(ValidEntries[k])

\* the positions of the returned stops are 0, 1/(m-1), ..., 1
EvenlySpaced ==
  LET stops == gradientResult.stops
  IN \A k \in 1..Len(stops) : stops[k].position * (Len(stops) - 1) = (k - 1) * PosUnit

\* the text starts with the colour stops, or with a direction or shape that
\* the function strips
StopListOnly ==
  \/ gradientInput.prefix = <<>>
  \/ gradientInput.fn = "linear" /\ gradientInput.prefix[1] \in {"90deg", "to right"}
  \/ gradientInput.fn = "radial" /\ gradientInput.prefix[1] = "circle"

\* C12, as claimed: for every colour-stop list the parser returns exactly one
\* stop per valid colour entry, rejects the gradient when fewer than two
\* entries are valid, and, when no entry gives a position, returns positions
\* evenly spaced from 0 to 1 over the returned stops.
C12_AsClaimed ==
  /\ OneStopPerValidEntry
  /\ gradientPc = "parsed" /\ gradientResult.ok /\ StopListOnly
     /\ (\A k \in 1..Len(gradientInput.entries) : ~GivesPosition(gradientInput.entries[k]))
     => EvenlySpaced

\* ============================================ properties of the attach step
\* the frames createFigmaNode has appended to their parent so far: the
\* container, its children and the children of its margin wrappers
AttachedFrames ==
  (IF pc \in {"children", "done", "failed"} THEN {frame.id} ELSE {})
  \cup {Box(k).id : k \in Boxes}
  \cup UNION {{Box(k).children[j].id : j \in 1..Len(Box(k).children)} : k \in Boxes}

\* C13, as claimed: the attach step applies the recorded intent of a frame
\* right after the frame is appended and then removes the frame's entry from
\* the pending side table: the table holds no entry for an attached frame.
C13_AsClaimed ==
  \A id \in AttachedFrames : id \notin DOMAIN pendingLayoutSizing

\* every box the synthesis has made so far: the container's frame, its
\* children, and the children of its margin wrappers
AllBoxes ==
  {frame} \cup {Box(k) : k \in Boxes}
  \cup UNION {{Box(k).children[j] : j \in 1..Len(Box(k).children)} : k \in Boxes}

\* C14: each assignment of a sizing mode (layoutSizingHorizontal,
\* layoutSizingVertical, and layoutGrow, which is FILL on the parent's main
\* axis) to a box happens after the box has been appended to its parent: no
\* box has ever been given a sizing mode while it was unattached.
C14_SizedWhenAttached ==
  \A box \in AllBoxes : ~SizedUnattached(box)

\* a finished container with a child that was given FILL after its attachment,
\* a margin wrapper and a placeholder that took over its node's sizing
C14_Witness ==
  /\ pc = "done"
  /\ \E a, b, c \in Boxes :
       /\ Box(a).name = "div" /\ IsAttached(Box(a)) /\ Box(a).layoutGrow = 1
       /\ Box(b).name = "margin-wrapper" /\ Box(b).layoutSizingHorizontal = "FILL"
       /\ Box(c).name = "relative-placeholder" /\ IsAttached(Box(c))

\* C15, as claimed: a sizing-mode assignment that the target rejects never
\* ends the synthesis: createFigmaNode does not fail at any place where it
\* assigns layoutSizingHorizontal or layoutSizingVertical, the placeholder of a
\* relatively-offset child included.
C15_AsClaimed ==
  pc # "failed"

\* ====================================== properties of the font loading
Loads == textNode.loads

\* C16: for every text node the calls of figma.loadFontAsync ask, in this
\* order, for the requested family with the computed style, for Inter with the
\* same style and for Inter Regular; a call is made only after every earlier
\* call has been rejected; there are at most three calls, none for a tier that
\* was tried before; the characters are assigned only after a call resolved,
\* and the node then has the face of that call.
C16_FontTiers ==
  /\ Len(Loads) <= 3
  /\ \A k \in 1..Len(Loads) :
       /\ Loads[k].face = TierFace(textInput, k)
       /\ k < Len(Loads) => Loads[k].outcome = "rejected"
  /\ Len(Loads) >= 1 =>
       Loads[1].face = [family |-> FontFamily(textInput), style |-> FontStyle(textInput)]
  /\ Len(Loads) >= 2 =>
       Loads[2].face = [family |-> "Inter", style |-> Loads[1].face.style]
  /\ Len(Loads) >= 3 =>
       Loads[3].face = [family |-> "Inter", style |-> "Regular"]
  /\ textNode.characters =>
       /\ Loads # <<>>
       /\ Loads[Len(Loads)].outcome = "loaded"
       /\ textNode.fontName = Loads[Len(Loads)].face

\* a Roboto Bold Italic text that got its characters after Roboto and Inter
\* Bold Italic were rejected and Inter Regular was loaded
C16_Witness ==
  /\ fontPc = "done"
  /\ textNode.characters
  /\ Len(Loads) = 3
  /\ Loads[1].face = [family |-> "Roboto", style |-> "Bold Italic"]
  /\ Loads[1].outcome = "rejected"
  /\ Loads[2].outcome = "rejected"
  /\ textNode.fontName = [family |-> "Inter", style |-> "Regular"]

\* ====================================== properties of concurrent requests
\* the requests whose synthesis has started and not ended
InSynthesis == {r \in Requests : handler[r].pc \in {"element", "font"}}

\* C17, as claimed: while one create_component request is being synthesised,
\* also while it waits for a font load, no box of another request is created:
\* every box made since the root frame of a request in synthesis belongs to
\* that request.
C17_AsClaimed ==
  \A r \in InSynthesis :
    \A n \in (handler[r].root + 1)..Len(nodes) : nodes[n].req = r

\* ====================================== properties of the flex-grow table
GrowIndices == {i \in RegularIndices : HasFlexGrow(element.children[i])}

\* C18, as claimed: every normal-flow child element with a flex-grow weight
\* above 0 is registered with that weight in flexGrowMap of its parent,
\* whatever margins it has and whatever the layout axis of the parent is.
C18_AsClaimed ==
  pc = "done" =>
    \A i \in GrowIndices :
      \E box \in AllBoxes :
        /\ box.name = "div" /\ box.src = i
        /\ box.id \in DOMAIN flexGrowMap
        /\ flexGrowMap[box.id] = Val(element.children[i].flexGrow)

\* the same for the children that do not go through the margin wrapper
RegisteredOutsideWrapper ==
  pc = "done" =>
    \A i \in GrowIndices :
      \A k \in Boxes :
        Box(k).name = "div" /\ Box(k).src = i =>
          /\ Box(k).id \in DOMAIN flexGrowMap
          /\ flexGrowMap[Box(k).id] = Val(element.children[i].flexGrow)

\* ====================================== properties of the two flex passes
\* the state in which createFigmaNode starts the distribution pass
DistributionStarts ==
  /\ pc = "children"
  /\ todoBefore = <<>> /\ todoRegular = <<>>
  /\ relativePositionedNodes = <<>> /\ todoAfter = <<>>
  /\ DOMAIN flexGrowMap # {}
  /\ frame.layoutMode # "NONE"

\* the boxes the synthesis adds for itself
SyntheticBoxNames ==
  {"spacer", "margin-spacer", "margin-left", "margin-right", "margin-wrapper",
   "relative-placeholder"}

IsSyntheticBox(box) == box.name \in SyntheticBoxNames

ElementBoxes(children) == SelectSeq(children, LAMBDA c : ~IsSyntheticBox(c))

\* C19, as claimed: in the distribution pass no synthetic box (auto spacer,
\* margin spacer, margin-left / margin-right spacer, margin wrapper,
\* relative-offset placeholder) adds to the total weight, to the fixed size or
\* to the gap count of its container: the three sums are what they are over
\* the boxes of the child elements alone.
C19_AsClaimed ==
  DistributionStarts =>
    /\ TotalFlexGrow(frame.children, flexGrowMap)
         = TotalFlexGrow(ElementBoxes(frame.children), flexGrowMap)
    /\ FixedSize(frame.children, flexGrowMap, IsHorizontal)
         = FixedSize(ElementBoxes(frame.children), flexGrowMap, IsHorizontal)
    /\ GapCount(frame.children) = GapCount(ElementBoxes(frame.children))

\* a box before and after the pass
Pair(before, after) == [before |-> before, after |-> after]

KidPairs(p) ==
  {Pair(p.before.children[j], p.after.children[j]) : j \in 1..Len(p.before.children)}

ContainerPair == Pair(distInput.frame, distResult)

\* the boxes one and two levels below the container
LevelOne == KidPairs(ContainerPair)

LevelTwo == UNION {KidPairs(p) : p \in LevelOne}

\* the pass has left the box as it was: size and sizing modes
Untouched(p) ==
  /\ p.after.width = p.before.width
  /\ p.after.height = p.before.height
  /\ p.after.layoutSizingHorizontal = p.before.layoutSizingHorizontal
  /\ p.after.layoutSizingVertical = p.before.layoutSizingVertical
  /\ p.after.layoutGrow = p.before.layoutGrow
  /\ p.after.primaryAxisSizingMode = p.before.primaryAxisSizingMode

\* the distribution pass computes an available space for the container and
\* finds none
ContainerWithoutSpace ==
  /\ DistributionRuns(distInput.frame, distInput.flexGrowMap)
  /\ AvailableSpace(distInput.frame, distInput.flexGrowMap, Undef) <= 0

\* recalculateNestedFlex computes an available space for the frame, from the
\* width it is called with (the width the frame has after the pass), and
\* finds none
NestedWithoutSpace(p) ==
  /\ p.before.layoutMode = "HORIZONTAL"
  /\ NestedTotalFlexGrow(p.before.children, distInput.nestedFlexGrowMap) > 0
  /\ NestedAvailableSpace(p.before, p.after.width, distInput.nestedFlexGrowMap) <= 0

\* C20: when the available space computed for a container is zero or
\* negative, the distribution pass and recalculateNestedFlex resize none of its
\* children and change none of their sizing modes: every child has the size
\* it had before the pass.
C20_NoSpaceNoResize ==
  distPc = "done" =>
    /\ ContainerWithoutSpace => distResult = distInput.frame
    /\ \A p \in LevelOne \cup LevelTwo :
         NestedWithoutSpace(p) => \A q \in KidPairs(p) : Untouched(q)

\* a HORIZONTAL container that gave its flex-grow row a width in which the
\* fixed child of the row leaves nothing for the flex-grow child of the row
C20_Witness ==
  /\ distPc = "done"
  /\ \E p \in LevelOne :
       /\ p.after.width # p.before.width
       /\ p.after.layoutSizingHorizontal = "FIXED"
       /\ NestedWithoutSpace(p)
       /\ \E q \in KidPairs(p) : q.before.id \in DOMAIN distInput.nestedFlexGrowMap

\* the same one level further down, in the space-between row of a column
NestedRowWithoutSpace ==
  /\ distPc = "done"
  /\ \E p \in LevelTwo : p.after.width # p.before.width /\ NestedWithoutSpace(p)

\* a container without space, with a flex-grow child
ContainerWithoutSpaceReached ==
  distPc = "done" /\ ContainerWithoutSpace

\* a nested frame whose flex-grow child was resized
NestedResized ==
  /\ distPc = "done"
  /\ \E p \in LevelOne \cup LevelTwo : \E q \in KidPairs(p) : ~Untouched(q)

\* ================================================ ownership of the boxes
\* the ids figma has handed out below the container's frame
CreatedIds == (frame.id + 1)..(nextId - 1)

\* the places a box with this id has: in the frame's child list, and in the
\* child list of a margin wrapper of the frame
PlacesOf(id) ==
  {<<k, 0>> : k \in {k \in Boxes : Box(k).id = id}}
  \cup UNION {{<<k, j>> : j \in {j \in 1..Len(Box(k).children) :
                                    Box(k).children[j].id = id}} : k \in Boxes}

Attached == attachPc = "attached" /\ attachInput.parent.layoutMode # "NONE"

IsInlineLevel(input) ==
  \/ input.tagName \in InlineTags
  \/ input.styles.display \in {"inline", "inline-block", "inline-flex"}

HugsBothAxes(box) ==
  box.layoutSizingHorizontal = "HUG" /\ box.layoutSizingVertical = "HUG"

\* C22, as claimed: an inline-level element (tag span, a, label, strong, em,
\* b, i, small, code, or display inline / inline-block / inline-flex) attached
\* to an auto-layout parent ends its attach step with HUG on both axes,
\* whatever the parent's alignment and whatever width, height or flex-grow it
\* declares.
C22_AsClaimed ==
  Attached /\ IsInlineLevel(attachInput) => HugsBothAxes(attachResult.frame)

\* the same for the inline-level elements without a positive flex-grow
InlineHugsWithoutGrow ==
  Attached /\ IsInlineLevel(attachInput) /\ ~HasFlexGrow(attachInput.styles)
    => HugsBothAxes(attachResult.frame)

\* C23, as claimed: an element with an explicit numeric width attached to an
\* auto-layout parent ends its attach step with horizontal sizing FIXED: no
\* default-stretch, inline-hug, flex-grow or align-self rule replaces the
\* explicit width with FILL or HUG.
C23_AsClaimed ==
  Attached /\ IsNum(attachInput.styles.width)
    => attachResult.frame.layoutSizingHorizontal = "FIXED"

\* the same for the block-level elements without flex-grow and align-self
BlockKeepsFixedWidth ==
  Attached /\ IsNum(attachInput.styles.width) /\ ~IsInlineLevel(attachInput)
  /\ ~HasFlexGrow(attachInput.styles) /\ attachInput.styles.alignSelf = NoStr
    => attachResult.frame.layoutSizingHorizontal = "FIXED"

HasAspectRatio(styles) == IsNum(styles.aspectRatio) /\ Val(styles.aspectRatio) > 0

\* C24, as claimed: for an element with aspect-ratio r > 0, when only its
\* width is resolved its height becomes width / r, when only its height is
\* resolved its width becomes height * r, and when both width and height are
\* explicit neither is changed.
C24_AsClaimed ==
  attachPc = "attached" /\ HasAspectRatio(attachInput.styles) =>
    LET styles == attachInput.styles
        r == Val(styles.aspectRatio)
        box == attachResult.frame
    IN /\ IsNum(styles.width) /\ IsUndef(styles.height)
            => box.width = Val(styles.width) /\ box.height = Val(styles.width) \div r
       /\ IsUndef(styles.width) /\ IsNum(styles.height)
            => box.height = Val(styles.height) /\ box.width = Val(styles.height) * r
       /\ IsNum(styles.width) /\ IsNum(styles.height)
            => box.width = Val(styles.width) /\ box.height = Val(styles.height)

\* the part of it the code keeps: the height follows an explicit width
HeightFollowsWidth ==
  attachPc = "attached" /\ HasAspectRatio(attachInput.styles)
  /\ IsNum(attachInput.styles.width) /\ IsUndef(attachInput.styles.height)
    => /\ attachResult.frame.width = Val(attachInput.styles.width)
       /\ attachResult.frame.height
            = Val(attachInput.styles.width) \div Val(attachInput.styles.aspectRatio)

\* only the height declared: the declared height stays
DeclaredHeightKept ==
  attachPc = "attached" /\ HasAspectRatio(attachInput.styles)
  /\ IsUndef(attachInput.styles.width) /\ IsNum(attachInput.styles.height)
    => attachResult.frame.height = Val(attachInput.styles.height)

\* width and height both declared: the declared height stays
BothDeclaredKept ==
  attachPc = "attached" /\ HasAspectRatio(attachInput.styles)
  /\ IsNum(attachInput.styles.width) /\ IsNum(attachInput.styles.height)
    => attachResult.frame.height = Val(attachInput.styles.height)

\* ------------------------------------------------------- numeric margins
MarginOf(i, side) == OrElse(element.children[i][side], 0)

MarginIndices ==
  {i \in RegularIndices :
     \E side \in {"marginTop", "marginRight", "marginBottom", "marginLeft"} :
       MarginOf(i, side) > 0}

HasSideMargin(i) == MarginOf(i, "marginLeft") > 0 \/ MarginOf(i, "marginRight") > 0

\* the places of the boxes made for child i, all of them and those in flow
PlacesFor(i) == {k \in Boxes : Box(k).src = i}

FlowPlacesFor(i) == {k \in PlacesFor(i) : InFlow(Box(k))}

IsRun(S) == \A k \in Boxes : (\E a, b \in S : a <= k /\ k <= b) => k \in S

\* name and main-axis size of a box, as the emulation prescribes them
Shape(name, size) == [name |-> name, size |-> size]

Shapes(S, size(_)) ==
  [n \in 1..Cardinality(S) |->
     LET k == CHOOSE k \in S : Cardinality({j \in S : j < k}) = n - 1
     IN Shape(Box(k).name, size(Box(k)))]

SpacerShape(name, margin) == IF margin > 0 THEN <<Shape(name, margin)>> ELSE <<>>

\* [top spacer, the box that holds the child's place, bottom spacer]
ExpectedColumn(i, holder) ==
  SpacerShape("margin-spacer", MarginOf(i, "marginTop"))
  \o <<Shape(holder, 0)>>
  \o SpacerShape("margin-spacer", MarginOf(i, "marginBottom"))

ColumnShapes(S) ==
  Shapes(S, LAMBDA box : IF box.name = "margin-spacer" THEN box.height ELSE 0)

\* [left spacer, child, right spacer] inside the wrapper
ExpectedWrapper(i) ==
  SpacerShape("margin-left", MarginOf(i, "marginLeft"))
  \o <<Shape("div", 0)>>
  \o SpacerShape("margin-right", MarginOf(i, "marginRight"))

WrapperShapes(wrapper) ==
  [n \in 1..Len(wrapper.children) |->
     Shape(wrapper.children[n].name,
           IF wrapper.children[n].name = "div" THEN 0 ELSE wrapper.children[n].width)]

WrapperFilled(i) ==
  \A k \in PlacesFor(i) :
    Box(k).name = "margin-wrapper" =>
      /\ Box(k).layoutMode = "HORIZONTAL"
      /\ WrapperShapes(Box(k)) = ExpectedWrapper(i)
      /\ \A n \in 1..Len(Box(k).children) : Box(k).children[n].src = i

\* C25, as claimed: in a VERTICAL container a normal-flow child with numeric
\* margins is emulated in this child-list order: a top spacer of height
\* margin-top (when > 0), then the child, or when it has a positive left or
\* right margin a HORIZONTAL wrapper whose children are exactly [left spacer
\* when margin-left > 0, the child, right spacer when margin-right > 0], then
\* a bottom spacer of height margin-bottom (when > 0).
C25_AsClaimed ==
  pc = "done" /\ frame.layoutMode = "VERTICAL" =>
    \A i \in MarginIndices :
      /\ IsRun(PlacesFor(i))
      /\ ColumnShapes(PlacesFor(i))
           = ExpectedColumn(i, IF HasSideMargin(i) THEN "margin-wrapper" ELSE "div")
      /\ WrapperFilled(i)

\* the box that holds the place of child i between its spacers
Holder(i) ==
  IF HasSideMargin(i) THEN "margin-wrapper"
  ELSE IF i \in RelativeIndices THEN "relative-placeholder"
  ELSE "div"

\* C25, corrected: in a VERTICAL container the in-flow boxes made for a
\* normal-flow child with numeric margins stand next to each other in this
\* order: a top spacer of height margin-top (when > 0), then the box that
\* holds the child's place, then a bottom spacer of height margin-bottom (when
\* > 0).  The place is held by a HORIZONTAL wrapper whose children are exactly
\* [left spacer when margin-left > 0, the child, right spacer when
\* margin-right > 0] when the child has a positive left or right margin,
\* otherwise by the child, or by its placeholder when the child is relatively
\* offset: that child is out of flow and stands later in the list.
C25_MarginEmulation ==
  pc = "done" /\ frame.layoutMode = "VERTICAL" =>
    \A i \in MarginIndices :
      /\ IsRun(FlowPlacesFor(i))
      /\ ColumnShapes(FlowPlacesFor(i)) = ExpectedColumn(i, Holder(i))
      /\ WrapperFilled(i)
      /\ \A k \in PlacesFor(i) \ FlowPlacesFor(i) :
           /\ i \in RelativeIndices /\ ~HasSideMargin(i) /\ Box(k).name = "div"
           /\ \A j \in FlowPlacesFor(i) : j < k

\* a finished VERTICAL container with a child between two margin spacers
\* inside a wrapper with both side spacers, and a relatively-offset child
\* whose placeholder stands between its two margin spacers
C25_Witness ==
  /\ pc = "done" /\ frame.layoutMode = "VERTICAL"
  /\ \E i, j \in MarginIndices :
       /\ HasSideMargin(i) /\ Cardinality(PlacesFor(i)) = 3
       /\ \E k \in PlacesFor(i) : Len(Box(k).children) = 3
       /\ j \in RelativeIndices /\ ~HasSideMargin(j)
       /\ Cardinality(FlowPlacesFor(j)) = 3 /\ Cardinality(PlacesFor(j)) = 4

\* ================================================= properties of the server
SettledIds == {settled[k].id : k \in 1..Len(settled)}

SettledBy(id) == {settled[k].by : k \in {k \in 1..Len(settled) : settled[k].id = id}}

\* no id has been settled twice
SettledOnce ==
  \A j, k \in 1..Len(settled) : settled[j].id = settled[k].id => j = k

\* what has been settled stays as it is
SettledStays == SubSeq(settled', 1, Len(settled)) = settled

\* C26: every request registered by FigmaWebSocketServer.send is eventually
\* settled, and settled exactly once: by the response with its id, by its
\* timeout, or by the close of the connection; once it is settled, a later
\* response, timeout or close for the same id has no effect.
C26_SettledOnce ==
  /\ []SettledOnce
  /\ [][SettledStays]_vars
  /\ \A id \in MsgIds :
       id \in pendingRequests ~> (id \notin pendingRequests /\ id \in SettledIds)

\* three requests, one settled by its response, one by its timeout and one by
\* the close of the connection, and a response for a settled id still to come
C26_Witness ==
  /\ \E a, b, c \in SettledIds :
       /\ SettledBy(a) = {"result"}
       /\ SettledBy(b) = {"timeout"}
       /\ SettledBy(c) = {"closed"}
  /\ toServer # <<>> /\ Head(toServer).type = "result"
  /\ Head(toServer).id \in SettledIds

\* the socket a request was written to
SocketOf(id) ==
  LET m == CHOOSE m \in {toPlugin[k] : k \in 1..Len(toPlugin)} : m.id = id
  IN m.socket

\* C27, as claimed: whenever the most recently connected plugin socket is
\* open, isConnected() is true, and no request sent over that socket has been
\* rejected by the close event of an earlier socket that it replaced.
C27_AsClaimed ==
  UiSocketOpen =>
    /\ IsConnected
    /\ \A id \in SettledIds :
         SocketOf(id) = Len(readyState) => "closed" \notin SettledBy(id)

\* the second half on its own
LatestNotRejected ==
  UiSocketOpen =>
    \A id \in SettledIds : SocketOf(id) = Len(readyState) => "closed" \notin SettledBy(id)

\* the first half while no earlier socket has closed after the latest connected
ConnectedWhileClient ==
  UiSocketOpen /\ client # 0 => client = Len(readyState) /\ IsConnected

\* the requests send registers in a step, and those a step settles
NewlySent ==
  IF Len(toPlugin') > Len(toPlugin) /\ toPlugin'[Len(toPlugin')].socket # 0
  THEN {toPlugin'[Len(toPlugin')].id} ELSE {}

NewlySettled == {settled'[k].id : k \in (Len(settled) + 1)..Len(settled')}

\* a step of handleMessage for a message whose id has no entry
UnknownResponse ==
  /\ toServer # <<>>
  /\ toServer' = Tail(toServer)
  /\ Head(toServer).id \notin pendingRequests

\* C28: in every reachable state of FigmaWebSocketServer, pendingRequests
\* holds exactly the ids of the requests that were sent and are not yet
\* settled: send adds the id, a step that settles ids removes exactly these,
\* nothing else changes the table, a settled request has no entry, and a
\* response whose id has no entry (one that arrives after the timeout, say)
\* changes nothing.
C28_PendingExact ==
  /\ [](pendingRequests \cap SettledIds = {})
  /\ [][pendingRequests' = (pendingRequests \cup NewlySent) \ NewlySettled]_vars
  /\ [][NewlySent \cap SettledIds = {} /\ NewlySettled \subseteq pendingRequests]_vars
  /\ [][UnknownResponse =>
          UNCHANGED <<pendingRequests, timers, settled, client, readyState, wss>>]_vars

\* a request has timed out, its response is the next message the server
\* handles, and another request is pending
C28_Witness ==
  /\ toServer # <<>> /\ Head(toServer).type = "result"
  /\ SettledBy(Head(toServer).id) = {"timeout"}
  /\ pendingRequests # {}

\* the connection has ended: stop() was called, or every socket has closed
ConnectionEnded ==
  \/ wss = "null"
  \/ readyState # <<>> /\ \A s \in DOMAIN readyState : readyState[s] = "CLOSED"

\* C29, as claimed: after the connection to the plugin has ended, by a close
\* event or by stop(), no request remains pending: every in-flight request
\* has been rejected, its timer cleared, and pendingRequests is empty.
C29_AsClaimed ==
  ConnectionEnded => pendingRequests = {} /\ timers = {}

\* the same for the close events alone
ClosedLeavesNothing ==
  (client = 0 /\ readyState # <<>> /\ wss = "listening")
    => pendingRequests = {} /\ timers = {}

\* ================================= the two passes on the same container state
\* the flexible children of the container, by index
FlexibleChildren ==
  {k \in 1..Len(distInput.frame.children) :
     IsRegistered(distInput.flexGrowMap, distInput.frame.children[k])}

\* recalculateNestedFlex on the container the distribution pass was given
NestedResult ==
  RecalculateNestedFlex(distInput.frame, distInput.frame.width,
                        distInput.nestedFlexGrowMap)

\* the space the distribution pass shares out; it computes none when it does
\* not run
FirstPassSpace ==
  IF DistributionRuns(distInput.frame, distInput.flexGrowMap)
  THEN Num(AvailableSpace(distInput.frame, distInput.flexGrowMap, Undef))
  ELSE Undef

\* the space recalculateNestedFlex shares out
NestedPassSpace ==
  IF NestedTotalFlexGrow(distInput.frame.children, distInput.nestedFlexGrowMap) > 0
  THEN Num(NestedAvailableSpace(distInput.frame, distInput.frame.width,
                                distInput.nestedFlexGrowMap))
  ELSE Undef

HorizontalDone ==
  distPc = "done" /\ distInput.frame.layoutMode = "HORIZONTAL" /\ FlexibleChildren # {}

\* C30, as claimed: for the same HORIZONTAL container state, the nested
\* recalculation pass (recalculateNestedFlex) and the first distribution pass of
\* createFigmaNode compute the same available space and give each flexible
\* child the same size, containers with absolutely positioned children and
\* containers with a single child included.
C30_AsClaimed ==
  HorizontalDone =>
    /\ FirstPassSpace = NestedPassSpace
    /\ \A k \in FlexibleChildren :
         /\ distResult.children[k].width = NestedResult.children[k].width
         /\ distResult.children[k].height = NestedResult.children[k].height

\* the two passes agree on a container with two or more children and no
\* absolutely positioned one
AgreeOtherwise ==
  (/\ HorizontalDone
   /\ GapCount(distInput.frame.children) > 1
   /\ \A k \in 1..Len(distInput.frame.children) :
        distInput.frame.children[k].layoutPositioning # "ABSOLUTE")
    => /\ FirstPassSpace = NestedPassSpace
       /\ \A k \in FlexibleChildren :
            distResult.children[k].width = NestedResult.children[k].width

\* they disagree on a container of one flexible child
SingleChildAgrees ==
  (HorizontalDone /\ Len(distInput.frame.children) = 1)
    => \A k \in FlexibleChildren :
         distResult.children[k].width = NestedResult.children[k].width

\* and on a container with an absolutely positioned child beside two others
AbsoluteChildAgrees ==
  (HorizontalDone /\ GapCount(distInput.frame.children) > 1)
    => \A k \in FlexibleChildren :
         distResult.children[k].width = NestedResult.children[k].width

====
